---- MODULE Spec2Model ----
(***************************************************************************)
(* Model of the goose session engine: the Message model                    *)
(* (src/models/message.rs), the Exchange with its two tokio mutexes        *)
(* (src/exchange/mod.rs), the OpenAI provider's usage bookkeeping          *)
(* (src/exchange/openai.rs), the Session's process_message /               *)
(* handle_interrupt and its run loop (src/cli/session.rs), the operator    *)
(* prompt (src/input/prompt.rs), the tools of the default toolkit          *)
(* (src/toolkit/tools.rs, src/toolkit/default.rs) and the session          *)
(* statistics (src/stats/mod.rs).                                          *)
(***************************************************************************)
EXTENDS Integers, Sequences, FiniteSets, TLC

VARIABLES
    \* Exchange (src/exchange/mod.rs:35-39) and its provider
    messages,          \* Exchange.messages: Vec<Message>
    token_usage,       \* Exchange.token_usage: u32
    messages_lock,     \* holder of the tokio Mutex around messages, or NoTask
    last_token_usage,  \* OpenAIProvider.last_token_usage: AtomicU32
    \* one record per task that calls into the Exchange
    pc,                \* where the task stands inside the call it is executing
    arg,               \* the Message passed to add_message
    response,          \* generate: the Message the provider returned
    ret,               \* what the last finished call returned
    gen_hist0,         \* generate: history when the call took the lock
    gen_tok0,          \* generate: token_usage when the call started
    gen_usage,         \* generate: response.usage of this call's backend answer
    \* Session (src/cli/session.rs:17-27)
    s_pc,              \* where the session stands ("absent": no Session built)
    s_messages,        \* Session.messages: Vec<Message>
    interrupted,       \* Session.interrupted: Arc<AtomicBool>
    stats,             \* Session.stats: total_messages, total_tokens
    s_arg,             \* process_message: its argument
    s_ret,             \* what the last process_message returned
    recovery,          \* handle_interrupt: the recovery text it printed
    s_before,          \* process_message: Session.messages when it was called
    s_flag0,           \* process_message: the flag's value when it was called
    s_backend,         \* process_message: the backend was called during it
    sig_pending,       \* a signal set the flag and no load has observed it since
    \* Message::validate and Message::text applied to one drawn message
    v_msg,
    v_out,
    v_text,            \* what text() returned
    \* Exchange::process_tool_use applied to the drawn tool call
    pt_result,         \* the ToolResult it returned
    \* SessionStats and StatsTracker used on their own (src/stats/mod.rs)
    tracker,           \* StatsTracker.stats: Vec<SessionStats>
    total,             \* what the last get_total_stats returned
    build,             \* "debug" or "release": what u32 overflow does
    panicked,          \* an arithmetic overflow panicked
    \* SessionLoop (src/session/mod.rs:15-22); its messages, interrupted and
    \* stats are s_messages, interrupted and stats
    l_pc,              \* where the SessionLoop stands ("absent": none built)
    l_recovered,       \* how often handle_interrupt has run
    l_observed,        \* how often a load found the flag set
    \* the tool calls of one answer in OpenAIProvider::generate (openai.rs:159-181)
    tc_calls,          \* message.tool_calls, as listed by the model
    tc_pc,             \* "absent", "loop", "returned"
    tc_i,              \* the call the for loop stands at
    tc_done,           \* the positions of the calls executed, in order
    tc_results,        \* results
    tc_content,        \* the content of the Assistant message returned
    \* DefaultToolkit::process_tool applied to one drawn tool call
    tk_tool,           \* the Tool handed to process_tool / validate_parameters
    tk_file,           \* the file at `path`
    tk_file0,          \* the file before the call
    tk_result,         \* what process_tool returned
    tk_script,         \* bash: the script handed to `bash -c`
    tk_runs,           \* bash: how often a process was spawned
    tk_env,            \* what the environment did to the call
    tk_gen,            \* what OpenAIProvider::generate made of the tool result
    tk_valid,          \* what validate_parameters returned
    \* Session::run
    r_pc,              \* where run stands ("absent": run was not called)
    r_ret,             \* what run returned
    r_line,            \* the operator line read in this iteration
    r_body,            \* what the backend answer of this iteration held
    r_hist0,           \* Exchange.messages when this iteration began
    r_seen             \* the loop observed the flag set and ran recovery

exVars   == <<messages, token_usage, messages_lock, last_token_usage,
              pc, arg, response, ret, gen_hist0, gen_tok0, gen_usage>>
sessVars == <<s_pc, s_messages, interrupted, stats, s_arg, s_ret, recovery,
              s_before, s_flag0, s_backend, sig_pending>>
loopVars == <<l_pc, l_recovered, l_observed>>
callVars == <<tc_calls, tc_pc, tc_i, tc_done, tc_results, tc_content>>
unitVars == <<v_text, pt_result, tracker, total, build, panicked, loopVars, callVars>>
valVars  == <<v_msg, v_out, unitVars>>
toolVars == <<tk_tool, tk_file, tk_file0, tk_result, tk_script, tk_runs,
              tk_env, tk_gen, tk_valid>>
runVars  == <<r_pc, r_ret, r_line, r_body, r_hist0, r_seen>>
\* everything Session::process_message and the Exchange's clients leave alone
restVars == <<valVars, toolVars, runVars>>
vars     == <<exVars, sessVars, valVars, toolVars, runVars>>

-----------------------------------------------------------------------------
(* Bounds *)

\* longest history a run grows
MaxHist == 3
\* largest usage.total_tokens one backend answer reports
MaxUsage == 1
\* most messages the persisted session file holds
MaxLoaded == 1
\* longest content vector of a message drawn for validate()
MaxContent == 3
\* distinct tool-call ids
MaxToolId == 2
\* most process_message calls of one session
MaxTurns == 3
\* bits of a statistics counter (32 in the program: u32, stats/mod.rs:10-11)
CounterBits == 2
\* most sessions a StatsTracker is given
MaxTracked == 2

-----------------------------------------------------------------------------
(* Message model: src/models/message.rs *)

Role == {"User", "Assistant"}

Text          == [kind |-> "Text", id |-> 0]
ToolUse(i)    == [kind |-> "ToolUse", id |-> i]
ToolResult(i) == [kind |-> "ToolResult", id |-> i]

Content == {Text} \cup {ToolUse(i) : i \in 1..MaxToolId}
                  \cup {ToolResult(i) : i \in 1..MaxToolId}

Message(role, content) == [role |-> role, content |-> content]

\* Message::user(text) / Message::assistant(text)
user      == Message("User", <<Text>>)
assistant == Message("Assistant", <<Text>>)

NoMsg == [role |-> "none", content |-> <<>>]

\* Content::Text { text } number i; Text is number 0
TextNo(i) == [kind |-> "Text", id |-> i]

\* the text of Text number i: number 1 is the empty string
text_of(c) == IF c.id = 1 THEN <<>> ELSE <<ToString(c.id)>>

\* [String]::join(sep)
RECURSIVE join(_, _)
join(q, sep) ==
    IF q = <<>> THEN <<>>
    ELSE IF Len(q) = 1 THEN q[1]
    ELSE q[1] \o sep \o join(Tail(q), sep)

\* lines 64-72: filter_map(|c| if let Content::Text { text } = c { Some(text) } else { None })
RECURSIVE filter_map_text(_)
filter_map_text(content) ==
    IF content = <<>> THEN <<>>
    ELSE (IF Head(content).kind = "Text" THEN <<text_of(Head(content))>> ELSE <<>>)
         \o filter_map_text(Tail(content))

\* a mutation: the texts are put together without the newline
text_concat(m) == join(filter_map_text(m.content), <<>>)

\* Message::text (lines 63-75): .collect::<Vec<_>>().join("\n")
text(m) == join(filter_map_text(m.content), <<"\n">>)

NoText == [done |-> FALSE, chars |-> <<>>]

\* content.iter().any(|c| matches!(c, kinds))
any(content, kinds) == \E i \in 1..Len(content) : content[i].kind \in kinds

is_user(m)      == m.role = "User"
is_assistant(m) == m.role = "Assistant"
has_tool_use(m) == any(m.content, {"ToolUse"})

\* a mutation of validate: the Assistant arm forgets the ToolResult check
validate_no_result_check(m) ==
    IF m.role = "User"
    THEN any(m.content, {"Text", "ToolResult"}) /\ ~any(m.content, {"ToolUse"})
    ELSE any(m.content, {"Text", "ToolUse"})

\* Message::validate: TRUE for Ok(()), FALSE for a bail!
validate(m) ==
    IF m.role = "User"
    THEN IF ~any(m.content, {"Text", "ToolResult"}) THEN FALSE
         ELSE IF any(m.content, {"ToolUse"}) THEN FALSE
         ELSE TRUE
    ELSE IF ~any(m.content, {"Text", "ToolUse"}) THEN FALSE
         ELSE IF any(m.content, {"ToolResult"}) THEN FALSE
         ELSE TRUE

RECURSIVE SeqsUpTo(_, _)
\* all sequences over S of length 0..n
SeqsUpTo(S, n) ==
    IF n = 0 THEN {<<>>}
    ELSE LET shorter == SeqsUpTo(S, n - 1)
         IN  shorter \cup {Append(s, x) : s \in {q \in shorter : Len(q) = n - 1}, x \in S}

\* the messages callers hand to add_message / process_message: the four
\* valid shapes and three that break a rule of validate
CallerMessages ==
    { user,
      Message("User", <<ToolResult(1)>>),
      assistant,
      Message("Assistant", <<ToolUse(1)>>),
      Message("User", <<ToolUse(1)>>),
      Message("Assistant", <<ToolResult(1)>>),
      Message("User", <<>>) }

-----------------------------------------------------------------------------
(* Exchange: src/exchange/mod.rs *)

\* tasks that call the Exchange directly, and the task that runs the Session
Clients  == {"t1", "t2"}
Main     == "main"
Tasks    == Clients \cup {Main}
NoTask   == "none"

\* response.usage of one backend answer: None or Some(n)
NoUsage == 0
Usages  == 0..MaxUsage

\* what choices[0].message of a backend answer holds (openai.rs:157-187)
Bodies == {"content", "tool_calls", "tool_calls_fail", "neither"}

Frame(t, newpc) == pc' = [pc EXCEPT ![t] = newpc]

(* add_message: mod.rs:54-59 *)
InAdd == {t \in Tasks : pc[t] \in {"am_validate", "am_lock"}}

add_message_call(t, m) ==
    /\ pc[t] = "idle"
    /\ Len(messages) + Cardinality(InAdd) < MaxHist
    /\ Frame(t, "am_validate")
    /\ arg' = [arg EXCEPT ![t] = m]
    /\ ret' = [ret EXCEPT ![t] = "none"]
    /\ UNCHANGED <<messages, token_usage, messages_lock, last_token_usage,
                   response, gen_hist0, gen_tok0, gen_usage>>

\* a mutation: push first, validate afterwards
add_message_validate_late(t) ==
    /\ pc[t] = "am_validate"
    /\ messages_lock = NoTask
    /\ messages' = Append(messages, arg[t])
    /\ Frame(t, "idle")
    /\ ret' = [ret EXCEPT ![t] = IF validate(arg[t]) THEN "add_ok" ELSE "add_err"]
    /\ arg' = [arg EXCEPT ![t] = NoMsg]
    /\ UNCHANGED <<token_usage, messages_lock, last_token_usage,
                   response, gen_hist0, gen_tok0, gen_usage>>

\* line 55: message.validate()?
add_message_validate(t) ==
    /\ pc[t] = "am_validate"
    /\ IF validate(arg[t])
       THEN /\ Frame(t, "am_lock")
            /\ UNCHANGED <<arg, ret>>
       ELSE /\ Frame(t, "idle")
            /\ ret' = [ret EXCEPT ![t] = "add_err"]
            /\ arg' = [arg EXCEPT ![t] = NoMsg]
    /\ UNCHANGED <<messages, token_usage, messages_lock, last_token_usage,
                   response, gen_hist0, gen_tok0, gen_usage>>

\* lines 56-58: lock, push, Ok(()); the guard is dropped on return
add_message_push(t) ==
    /\ pc[t] = "am_lock"
    /\ messages_lock = NoTask
    /\ messages' = Append(messages, arg[t])
    /\ Frame(t, "idle")
    /\ ret' = [ret EXCEPT ![t] = "add_ok"]
    /\ arg' = [arg EXCEPT ![t] = NoMsg]
    /\ UNCHANGED <<token_usage, messages_lock, last_token_usage,
                   response, gen_hist0, gen_tok0, gen_usage>>

(* rewind: mod.rs:79-83 *)

\* a mutation of pop: removes the oldest message
pop_front(h) == IF h = <<>> THEN h ELSE Tail(h)

\* Vec::pop: the vector without its last element; an empty one stays empty
pop(h) == IF h = <<>> THEN h ELSE SubSeq(h, 1, Len(h) - 1)

rewind(t) ==
    /\ pc[t] = "idle"
    /\ messages_lock = NoTask
    /\ messages' = pop(messages)
    /\ ret' = [ret EXCEPT ![t] = "rewind_ok"]
    /\ UNCHANGED <<token_usage, messages_lock, last_token_usage, pc, arg,
                   response, gen_hist0, gen_tok0, gen_usage>>

(* OpenAIProvider: src/exchange/openai.rs *)

\* lines 151-154: if let Some(usage) = response.usage { store }
store_usage(last, u) == IF u # NoUsage THEN u ELSE last

\* lines 157-187: Ok(Message::assistant(..)) or Err, by what the answer holds
provider_ok(body) == body \in {"content", "tool_calls"}

\* get_token_usage (190-192): the value last stored
get_token_usage == last_token_usage

(* generate: mod.rs:62-76 *)

\* line 63: let messages = self.messages.lock().await
generate_lock(t) ==
    /\ pc[t] = "idle"
    /\ messages_lock = NoTask
    /\ messages_lock' = t
    /\ Frame(t, "g_call")
    /\ ret' = [ret EXCEPT ![t] = "none"]
    /\ gen_hist0' = [gen_hist0 EXCEPT ![t] = messages]
    /\ gen_tok0' = [gen_tok0 EXCEPT ![t] = token_usage]
    /\ gen_usage' = [gen_usage EXCEPT ![t] = NoUsage]
    /\ UNCHANGED <<messages, token_usage, last_token_usage, arg, response>>

\* a mutation: a failed backend call leaves a partial Assistant message
provider_error_partial(t) ==
    /\ pc[t] = "g_call"
    /\ messages_lock' = NoTask
    /\ messages' = Append(messages, assistant)
    /\ Frame(t, "idle")
    /\ ret' = [ret EXCEPT ![t] = "gen_err"]
    /\ gen_hist0' = [gen_hist0 EXCEPT ![t] = <<>>]
    /\ UNCHANGED <<token_usage, last_token_usage, arg, response,
                   gen_tok0, gen_usage>>

\* line 64 with openai.rs:144-148: the request fails; `?` returns the error
\* and the guard taken at line 63 is dropped
provider_error(t) ==
    /\ pc[t] = "g_call"
    /\ messages_lock' = NoTask
    /\ Frame(t, "idle")
    /\ ret' = [ret EXCEPT ![t] = "gen_err"]
    /\ gen_hist0' = [gen_hist0 EXCEPT ![t] = <<>>]
    /\ UNCHANGED <<messages, token_usage, last_token_usage, arg, response,
                   gen_tok0, gen_usage>>

\* line 64 with openai.rs:150-187: the backend answers with usage u and body
provider_answer(t, u, body) ==
    /\ pc[t] = "g_call"
    /\ last_token_usage' = store_usage(last_token_usage, u)
    /\ gen_usage' = [gen_usage EXCEPT ![t] = u]
    /\ IF provider_ok(body)
       THEN /\ response' = [response EXCEPT ![t] = assistant]
            /\ Frame(t, "g_count")
            /\ UNCHANGED <<messages_lock, ret, gen_hist0>>
       ELSE /\ messages_lock' = NoTask
            /\ Frame(t, "idle")
            /\ ret' = [ret EXCEPT ![t] = "gen_err"]
            /\ gen_hist0' = [gen_hist0 EXCEPT ![t] = <<>>]
            /\ UNCHANGED response
    /\ UNCHANGED <<messages, token_usage, arg, gen_tok0>>

\* lines 67-71: *token_usage += provider.get_token_usage(); drop(token_usage)
generate_count(t) ==
    /\ pc[t] = "g_count"
    /\ token_usage' = token_usage + get_token_usage
    /\ Frame(t, "g_relock")
    /\ UNCHANGED <<messages, messages_lock, last_token_usage, arg, response,
                   ret, gen_hist0, gen_tok0, gen_usage>>

\* lines 72-75: one poll of the second self.messages.lock().await; the guard
\* of line 63 is still alive, so the poll finds the mutex taken unless some
\* other step released it; when it is free: push(response.clone()), Ok
generate_relock(t) ==
    /\ pc[t] = "g_relock"
    /\ IF messages_lock = NoTask
       THEN /\ messages' = Append(messages, response[t])
            /\ Frame(t, "idle")
            /\ ret' = [ret EXCEPT ![t] = "gen_ok"]
            /\ gen_hist0' = [gen_hist0 EXCEPT ![t] = <<>>]
            /\ UNCHANGED <<token_usage, messages_lock, last_token_usage, arg,
                           response, gen_tok0, gen_usage>>
       ELSE UNCHANGED exVars

(* process_tool_use: mod.rs:96-104 *)

\* ToolResult { tool_use_id, output, is_error }
tool_result(tool_use_id, output, is_error) ==
    [tool_use_id |-> tool_use_id, output |-> output, is_error |-> is_error]

NoToolResult == tool_result(0, <<>>, FALSE)

\* lines 99-103: the placeholder result, whatever the tool use asks for
process_tool_use(tool_use) ==
    tool_result(tool_use.id, <<"Tool processing not implemented yet">>, TRUE)

-----------------------------------------------------------------------------
(* Session: src/cli/session.rs *)

\* a u32 holds 0 .. U32 - 1; in a release build `+=` wraps around
U32 == 2 ^ CounterBits
wrapping(x) == x % U32

\* SessionStats::new (stats/mod.rs:16-25); session_id and start_time play no
\* part, and total_cost is total_tokens * 0.0001 throughout
SessionStats_new == [total_messages |-> 0, total_tokens |-> 0, end_time |-> "None"]

\* SessionStats::complete (stats/mod.rs:34-36): end_time = Some(Utc::now())
complete(st) == [st EXCEPT !.end_time = "Some"]

\* SessionStats::add_message (stats/mod.rs:38-40)
add_message(st) == [st EXCEPT !.total_messages = wrapping(@ + 1)]

\* SessionStats::add_tokens (stats/mod.rs:42-47)
add_tokens(st, tokens) == [st EXCEPT !.total_tokens = wrapping(@ + tokens)]

(* StatsTracker: stats/mod.rs:65-92 *)

\* what `x += y` on a u32 does: a debug build panics when the sum does not
\* fit, a release build wraps
overflows(x, y) == x + y >= U32

\* track_session (75-77): self.stats.push(stats)
track_session(q, st) == Append(q, st)

\* get_total_stats (83-91): SessionStats::new("total"), then for every
\* tracked session total.total_messages += .., total.total_tokens += ..
RECURSIVE get_total_stats_from(_, _)
get_total_stats_from(q, tot) ==
    IF q = <<>> THEN tot
    ELSE get_total_stats_from(Tail(q),
             [tot EXCEPT !.total_messages = wrapping(@ + Head(q).total_messages),
                         !.total_tokens = wrapping(@ + Head(q).total_tokens)])

get_total_stats(q) == get_total_stats_from(q, SessionStats_new)

\* one of the additions of get_total_stats does not fit
RECURSIVE get_total_stats_overflows(_, _)
get_total_stats_overflows(q, tot) ==
    /\ q # <<>>
    /\ \/ overflows(tot.total_messages, Head(q).total_messages)
       \/ overflows(tot.total_tokens, Head(q).total_tokens)
       \/ get_total_stats_overflows(Tail(q),
              [tot EXCEPT !.total_messages = wrapping(@ + Head(q).total_messages),
                          !.total_tokens = wrapping(@ + Head(q).total_tokens)])

NoTotal == [total_messages |-> 0, total_tokens |-> 0, end_time |-> "none"]

\* the token counts handed to add_tokens
TokenInputs == {0, 1, U32 - 1}

\* stats.add_message()
stats_add_message ==
    /\ ~panicked
    /\ IF overflows(stats.total_messages, 1) /\ build = "debug"
       THEN panicked' = TRUE /\ UNCHANGED stats
       ELSE stats' = add_message(stats) /\ UNCHANGED panicked
    /\ UNCHANGED <<tracker, total, build>>

\* stats.add_tokens(tokens)
stats_add_tokens(tokens) ==
    /\ ~panicked
    /\ IF overflows(stats.total_tokens, tokens) /\ build = "debug"
       THEN panicked' = TRUE /\ UNCHANGED stats
       ELSE stats' = add_tokens(stats, tokens) /\ UNCHANGED panicked
    /\ UNCHANGED <<tracker, total, build>>

\* stats.complete()
stats_complete ==
    /\ ~panicked
    /\ stats' = complete(stats)
    /\ UNCHANGED <<tracker, total, build, panicked>>

\* session/mod.rs:153-155: stats.clone(), complete(), track_session(stats)
stats_track_session ==
    /\ ~panicked
    /\ Len(tracker) < MaxTracked
    /\ tracker' = track_session(tracker, complete(stats))
    /\ UNCHANGED <<stats, total, build, panicked>>

\* tracker.get_total_stats()
stats_get_total_stats ==
    /\ ~panicked
    /\ IF get_total_stats_overflows(tracker, SessionStats_new) /\ build = "debug"
       THEN panicked' = TRUE /\ UNCHANGED total
       ELSE total' = get_total_stats(tracker) /\ UNCHANGED panicked
    /\ UNCHANGED <<stats, tracker, build>>

\* process_message is entered with `message`
process_message_call(m) ==
    /\ s_pc = "idle"
    /\ Len(s_messages) < MaxHist
    /\ stats.total_messages < MaxTurns
    /\ s_pc' = "pm_validate"
    /\ s_arg' = m
    /\ s_ret' = "none"
    /\ recovery' = "none"
    /\ s_before' = s_messages
    /\ s_flag0' = interrupted
    /\ s_backend' = FALSE
    /\ UNCHANGED <<s_messages, interrupted, stats, sig_pending>>

\* lines 183-187: message.validate()?; messages.push(message); stats.add_message()
process_message_validate ==
    /\ s_pc = "pm_validate"
    /\ IF validate(s_arg)
       THEN /\ s_messages' = Append(s_messages, s_arg)
            /\ stats' = add_message(stats)
            /\ s_pc' = "pm_check"
            /\ UNCHANGED s_ret
       ELSE /\ s_pc' = "idle"
            /\ s_ret' = "err_invalid"
            /\ UNCHANGED <<s_messages, stats>>
    /\ UNCHANGED <<interrupted, s_arg, recovery, s_before, s_flag0,
                   s_backend, sig_pending>>

\* a mutation: the interruption check is skipped
process_message_check_never ==
    /\ s_pc = "pm_check"
    /\ s_pc' = "pm_generate"
    /\ UNCHANGED <<s_messages, interrupted, stats, s_arg, s_ret, recovery,
                   s_before, s_flag0, s_backend, sig_pending>>

\* line 190: if self.interrupted.load(SeqCst)
process_message_check ==
    /\ s_pc = "pm_check"
    /\ IF interrupted
       THEN /\ s_pc' = "pm_recover"
            /\ sig_pending' = FALSE
       ELSE /\ s_pc' = "pm_generate"
            /\ UNCHANGED sig_pending
    /\ UNCHANGED <<s_messages, interrupted, stats, s_arg, s_ret, recovery,
                   s_before, s_flag0, s_backend>>

\* a mutation of the pruning: the last message is removed whatever its role
handle_interrupt_pop_any(h) == pop(h)

\* a mutation of the pruning: the message before the pending one goes too
handle_interrupt_pop_two(h) ==
    IF h # <<>> /\ is_user(h[Len(h)]) THEN pop(pop(h)) ELSE h

\* lines 225-230: the history handle_interrupt leaves
handle_interrupt_messages(h) ==
    IF h # <<>> /\ is_user(h[Len(h)]) THEN pop(h) ELSE h

\* lines 223-238: the recovery text, from the history before and after pruning
handle_interrupt_recovery(h) ==
    LET h2 == handle_interrupt_messages(h)
    IN  IF h # <<>> /\ h2 # <<>> /\ is_assistant(h2[Len(h2)])
                    /\ has_tool_use(h2[Len(h2)])
        THEN "tool_call"
        ELSE IF h # <<>> /\ is_user(h[Len(h)]) THEN "removed_last"
        ELSE "before_next"

\* lines 191-192 with handle_interrupt (221-243): prune, print,
\* interrupted.store(false), return Ok(())
handle_interrupt ==
    /\ s_pc = "pm_recover"
    /\ s_messages' = handle_interrupt_messages(s_messages)
    /\ recovery' = handle_interrupt_recovery(s_messages)
    /\ interrupted' = FALSE
    /\ s_pc' = "idle"
    /\ s_ret' = "ok_interrupted"
    /\ UNCHANGED <<stats, s_arg, s_before, s_flag0, s_backend, sig_pending>>

\* line 202: exchange.generate(..).await is entered
process_message_generate ==
    /\ s_pc = "pm_generate"
    /\ generate_lock(Main)
    /\ s_pc' = "pm_wait"
    /\ UNCHANGED <<s_messages, interrupted, stats, s_arg, s_ret, recovery,
                   s_before, s_flag0, s_backend, sig_pending>>

\* lines 202-218: generate has returned: `?` hands an error on; otherwise
\* push the response, add_tokens(exchange.get_token_usage()), Ok(())
process_message_return ==
    /\ s_pc = "pm_wait"
    /\ pc[Main] = "idle"
    /\ IF ret[Main] = "gen_err"
       THEN /\ s_ret' = "err_provider"
            /\ UNCHANGED <<s_messages, stats>>
       ELSE /\ s_messages' = Append(s_messages, response[Main])
            /\ stats' = add_tokens(stats, token_usage)
            /\ s_ret' = "ok"
    /\ s_pc' = "idle"
    /\ UNCHANGED <<interrupted, s_arg, recovery, s_before, s_flag0,
                   s_backend, sig_pending>>

\* the Ctrl-C handler (lines 46-48) or Session::interrupt (253-255):
\* interrupted.store(true)
interrupt ==
    /\ s_pc # "absent"
    /\ interrupted' = TRUE
    /\ sig_pending' = TRUE
    /\ UNCHANGED <<s_pc, s_messages, stats, s_arg, s_ret, recovery,
                   s_before, s_flag0, s_backend>>

-----------------------------------------------------------------------------
(* serde_json::Value as the toolkit reads it *)

\* longest file, in lines
MaxLines == 3

JAbsent  == [t |-> "absent", s |-> "", i |-> 0, a |-> <<>>]
JNull    == [t |-> "null", s |-> "", i |-> 0, a |-> <<>>]
JStr(x)  == [t |-> "str", s |-> x, i |-> 0, a |-> <<>>]
JInt(n)  == [t |-> "int", s |-> "", i |-> n, a |-> <<>>]
JArr(q)  == [t |-> "arr", s |-> "", i |-> 0, a |-> q]

\* the keys the tools of DefaultToolkit::new declare (default.rs:25-132)
Keys == {"working_dir", "source_path", "command", "path", "file_text",
         "old_str", "new_str", "insert_line", "view_range", "url",
         "shell_command", "process_id"}

\* a JSON object: every key of Keys, JAbsent where the object has no such key
Object(fields) ==
    [is_object |-> TRUE,
     fields |-> [k \in Keys |-> IF k \in DOMAIN fields THEN fields[k] ELSE JAbsent]]

\* a JSON value that is no object (a string, a number, an array)
NotObject == [is_object |-> FALSE, fields |-> [k \in Keys |-> JAbsent]]

\* Value::get(key): Some(v) exactly when the value is an object with that key
get(params, key) ==
    IF params.is_object THEN params.fields[key] ELSE JAbsent

is_some(v) == v.t # "absent"

\* Value::as_str / as_i64 / as_array
as_str(v)   == v.t = "str"
as_i64(v)   == v.t = "int"
as_array(v) == v.t = "arr"

\* Tool::new (tools.rs:13-20)
Tool(name, parameters, required) ==
    [name |-> name, parameters |-> parameters, required |-> required]

NoTool == Tool("none", NotObject, <<>>)

(* Tool::validate_parameters: src/toolkit/tools.rs:22-30 *)

\* a mutation: one required name that is present is enough
validate_parameters_any(tool, params) ==
    \/ tool.required = <<>>
    \/ \E n \in 1..Len(tool.required) : is_some(get(params, tool.required[n]))

RECURSIVE required_from(_, _, _)
\* the for loop from index n on: return false at the first absent name
required_from(required, params, n) ==
    IF n > Len(required) THEN TRUE
    ELSE IF ~is_some(get(params, required[n])) THEN FALSE
    ELSE required_from(required, params, n + 1)

validate_parameters(tool, params) == required_from(tool.required, params, 1)

-----------------------------------------------------------------------------
(* DefaultToolkit::process_tool: src/toolkit/default.rs:150-325 *)

\* Result<Message>: Ok(Message::assistant(text)), Err(anyhow!(..)), or a panic
Ok(out)    == [kind |-> "Ok", text |-> out]
Err(what)  == [kind |-> "Err", text |-> <<what>>]
Panic      == [kind |-> "Panic", text |-> <<>>]
NoResult   == [kind |-> "none", text |-> <<>>]

\* the file at `path`: missing, or its lines
NoFile      == [exists |-> FALSE, lines |-> <<>>]
File(lines) == [exists |-> TRUE, lines |-> lines]

\* what process_tool leaves behind: its result, the file, and for bash the
\* script and the number of processes spawned
Outcome(result, file, script, runs) ==
    [result |-> result, file |-> file, script |-> script, runs |-> runs]

\* what the environment does to this call: whether bash can be spawned, what
\* the process prints, whether the file can be written
Envs == [spawn_ok : BOOLEAN, stdout : {<<>>, <<"out">>},
         stderr : {<<>>, <<"err">>}, write_ok : BOOLEAN]

NoEnv == [spawn_ok |-> FALSE, stdout |-> <<>>, stderr |-> <<>>, write_ok |-> FALSE]

(* bash: lines 152-208 *)

\* a mutation of the script: the file is sourced before the directory changes
bash_script_source_first(params) ==
    LET working_dir == get(params, "working_dir")
        source_path == get(params, "source_path")
        command     == get(params, "command")
    IN  (IF as_str(source_path) THEN <<[op |-> "source", arg |-> source_path.s]>> ELSE <<>>)
        \o (IF as_str(working_dir) THEN <<[op |-> "cd", arg |-> working_dir.s]>> ELSE <<>>)
        \o (IF as_str(command) THEN <<[op |-> "run", arg |-> command.s]>> ELSE <<>>)

\* lines 176-188: the script, piece by piece
bash_script(params) ==
    LET working_dir == get(params, "working_dir")
        source_path == get(params, "source_path")
        command     == get(params, "command")
    IN  (IF as_str(working_dir) THEN <<[op |-> "cd", arg |-> working_dir.s]>> ELSE <<>>)
        \o (IF as_str(source_path) THEN <<[op |-> "source", arg |-> source_path.s]>> ELSE <<>>)
        \o (IF as_str(command) THEN <<[op |-> "run", arg |-> command.s]>> ELSE <<>>)

\* lines 194-205: stdout, a newline when both are non-empty, stderr
bash_result(stdout, stderr) ==
    stdout \o (IF stdout # <<>> /\ stderr # <<>> THEN <<"\n">> ELSE <<>>) \o stderr

bash(params, file, env) ==
    IF ~params.is_object
    THEN Outcome(Err("Invalid parameters for bash tool"), file, <<>>, 0)
    ELSE IF /\ ~as_str(get(params, "working_dir"))
            /\ ~as_str(get(params, "source_path"))
            /\ ~as_str(get(params, "command"))
    THEN Outcome(Err("At least one parameter must be provided for bash tool"),
                 file, <<>>, 0)
    ELSE IF ~env.spawn_ok
    THEN Outcome(Err("Failed to execute bash command"), file, bash_script(params), 0)
    ELSE Outcome(Ok(bash_result(env.stdout, env.stderr)), file,
                 bash_script(params), 1)

(* text_editor: lines 210-311 *)

\* what `as usize` adds to a negative i64: 2^64 in the program; here the
\* largest power of two TLC's integers hold, which like 2^64 is far
\* beyond every Vec length
UsizeWrap == 1073741824

\* `x as usize` for an i64 x: a negative value wraps around
as_usize(x) == IF x < 0 THEN x + UsizeWrap ELSE x

Max(x, y) == IF x >= y THEN x ELSE y
Min(x, y) == IF x <= y THEN x ELSE y

RECURSIVE filter_i64(_)
\* arr.iter().filter_map(|v| v.as_i64()).collect()
filter_i64(arr) ==
    IF arr = <<>> THEN <<>>
    ELSE IF as_i64(Head(arr)) THEN <<Head(arr).i>> \o filter_i64(Tail(arr))
    ELSE filter_i64(Tail(arr))

\* lines 234-238: lines[start..end], which panics when start > end or end > len
view_range(lines, range) ==
    LET start == as_usize(Max(range[1] - 1, 0))
        end   == as_usize(Min(range[2], Len(lines)))
    IN  IF start > end \/ end > Len(lines)
        THEN Panic
        ELSE Ok(SubSeq(lines, start + 1, end))

\* lines 223-245
view(params, file) ==
    IF ~file.exists THEN Outcome(Err("Failed to read file"), file, <<>>, 0)
    ELSE IF as_array(get(params, "view_range"))
    THEN LET range == filter_i64(get(params, "view_range").a)
         IN  IF Len(range) = 2
             THEN Outcome(view_range(file.lines, range), file, <<>>, 0)
             ELSE Outcome(Err("view_range must contain exactly 2 numbers"),
                          file, <<>>, 0)
    ELSE Outcome(Ok(file.lines), file, <<>>, 0)

\* a mutation of create: the file is written before file_text is looked at
create_write_first(params, file, env) ==
    IF ~as_str(get(params, "file_text"))
    THEN Outcome(Err("Missing file_text parameter"), File(<<>>), <<>>, 0)
    ELSE IF ~env.write_ok THEN Outcome(Err("Failed to write file"), file, <<>>, 0)
    ELSE Outcome(Ok(<<"Created file">>), File(<<get(params, "file_text").s>>), <<>>, 0)

\* lines 247-256
create(params, file, env) ==
    IF ~as_str(get(params, "file_text"))
    THEN Outcome(Err("Missing file_text parameter"), file, <<>>, 0)
    ELSE IF ~env.write_ok THEN Outcome(Err("Failed to write file"), file, <<>>, 0)
    ELSE Outcome(Ok(<<"Created file">>), File(<<get(params, "file_text").s>>), <<>>, 0)

\* content.replace(old_str, new_str), on files whose lines are the tokens
\* that old_str is drawn from: a line equal to old_str becomes new_str
replace(lines, old_str, new_str) ==
    [n \in 1..Len(lines) |-> IF lines[n] = old_str THEN new_str ELSE lines[n]]

\* lines 258-276
str_replace(params, file, env) ==
    IF ~as_str(get(params, "old_str"))
    THEN Outcome(Err("Missing old_str parameter"), file, <<>>, 0)
    ELSE LET old_str == get(params, "old_str").s
             new_str == IF as_str(get(params, "new_str"))
                        THEN get(params, "new_str").s ELSE ""
         IN  IF ~file.exists THEN Outcome(Err("Failed to read file"), file, <<>>, 0)
             ELSE IF ~env.write_ok
             THEN Outcome(Err("Failed to write file"), file, <<>>, 0)
             ELSE Outcome(Ok(<<"Replaced">>),
                          File(replace(file.lines, old_str, new_str)), <<>>, 0)

\* Vec::insert(index, element) for index <= len
\* a mutation of the insertion: the element goes before line `index`
insert_before(lines, index, element) ==
    LET at == Max(index - 1, 0)
    IN  SubSeq(lines, 1, at) \o <<element>> \o SubSeq(lines, at + 1, Len(lines))

insert_at(lines, index, element) ==
    SubSeq(lines, 1, index) \o <<element>> \o SubSeq(lines, index + 1, Len(lines))

\* lines 278-302
insert(params, file, env) ==
    IF ~as_str(get(params, "new_str"))
    THEN Outcome(Err("Missing new_str parameter"), file, <<>>, 0)
    ELSE IF ~as_i64(get(params, "insert_line"))
    THEN Outcome(Err("Missing or invalid insert_line parameter"), file, <<>>, 0)
    ELSE LET new_str     == get(params, "new_str").s
             insert_line == get(params, "insert_line").i
         IN  IF ~file.exists THEN Outcome(Err("Failed to read file"), file, <<>>, 0)
             ELSE IF as_usize(insert_line) > Len(file.lines)
             THEN Outcome(Err("insert_line is beyond end of file"), file, <<>>, 0)
             ELSE IF ~env.write_ok
             THEN Outcome(Err("Failed to write file"), file, <<>>, 0)
             ELSE Outcome(Ok(<<"Inserted">>),
                          File(insert_at(file.lines, insert_line, new_str)), <<>>, 0)

text_editor(params, file, env) ==
    IF ~params.is_object
    THEN Outcome(Err("Invalid parameters for text_editor tool"), file, <<>>, 0)
    ELSE IF ~as_str(get(params, "command"))
    THEN Outcome(Err("Missing command parameter"), file, <<>>, 0)
    ELSE IF ~as_str(get(params, "path"))
    THEN Outcome(Err("Missing path parameter"), file, <<>>, 0)
    ELSE LET command == get(params, "command").s
         IN  CASE command = "view"        -> view(params, file)
               [] command = "create"      -> create(params, file, env)
               [] command = "str_replace" -> str_replace(params, file, env)
               [] command = "insert"      -> insert(params, file, env)
               [] command = "undo_edit"   ->
                      Outcome(Err("Undo functionality not yet implemented"), file, <<>>, 0)
               [] OTHER ->
                      Outcome(Err("Unknown text_editor command"), file, <<>>, 0)

\* process_tool as a whole: match tool_call.name
process_tool_outcome(tool_call, file, env) ==
    CASE tool_call.name = "bash"        -> bash(tool_call.parameters, file, env)
      [] tool_call.name = "text_editor" -> text_editor(tool_call.parameters, file, env)
      [] tool_call.name = "fetch_web_content" ->
             Outcome(Err("Web content fetching not yet implemented"), file, <<>>, 0)
      [] tool_call.name = "process_manager" ->
             Outcome(Err("Process management not yet implemented"), file, <<>>, 0)
      [] OTHER -> Outcome(Err("Unknown tool"), file, <<>>, 0)

\* one call of process_tool on the drawn tool call
process_tool(names) ==
    /\ tk_tool.name \in names
    /\ tk_result = NoResult
    /\ \E env \in Envs :
          LET o == process_tool_outcome(tk_tool, tk_file, env)
          IN  /\ tk_result' = o.result
              /\ tk_file' = o.file
              /\ tk_script' = o.script
              /\ tk_runs' = tk_runs + o.runs
              /\ tk_env' = env
    /\ UNCHANGED <<tk_tool, tk_file0, tk_gen, tk_valid>>

\* OpenAIProvider::generate, openai.rs:175-181, for the one tool call of the
\* answer: `?` on the result of process_tool, else Ok(Message::assistant(..))
provider_tool_call ==
    /\ tk_result.kind \in {"Ok", "Err"}
    /\ tk_gen = "none"
    /\ tk_gen' = IF tk_result.kind = "Err" THEN "Err" ELSE "Ok"
    /\ UNCHANGED <<tk_tool, tk_file, tk_file0, tk_result, tk_script, tk_runs,
                   tk_env, tk_valid>>

(* OpenAIProvider::generate on an answer with tool calls: openai.rs:159-181 *)

\* one pass of `for tool_call in tool_calls` (lines 164-177): Tool::new with
\* serde_json::from_str(arguments)?, then toolkit.process_tool(&tool).await?,
\* then results.push(result.text())
provider_tool_calls_step(env) ==
    /\ tc_pc = "loop"
    /\ tc_i <= Len(tc_calls)
    /\ LET tool_call == tc_calls[tc_i]
           o == process_tool_outcome(tool_call.tool, tk_file, env)
       IN  IF ~tool_call.parses
           THEN /\ tk_gen' = "Err"
                /\ tc_pc' = "returned"
                /\ UNCHANGED <<tk_file, tk_result, tk_script, tk_runs, tk_env,
                               tc_i, tc_done, tc_results>>
           ELSE /\ tk_result' = o.result
                /\ tk_file' = o.file
                /\ tk_script' = o.script
                /\ tk_runs' = tk_runs + o.runs
                /\ tk_env' = env
                /\ tc_done' = Append(tc_done, tc_i)
                /\ IF o.result.kind = "Ok"
                   THEN /\ tc_results' = Append(tc_results, o.result.text)
                        /\ tc_i' = tc_i + 1
                        /\ UNCHANGED <<tk_gen, tc_pc>>
                   ELSE /\ tk_gen' = o.result.kind
                        /\ tc_pc' = "returned"
                        /\ UNCHANGED <<tc_i, tc_results>>
    /\ UNCHANGED <<tk_tool, tk_file0, tk_valid, tc_calls, tc_content>>
    /\ UNCHANGED <<v_msg, v_out, v_text, pt_result, tracker, total, build, panicked,
                   loopVars>>
    /\ UNCHANGED <<exVars, sessVars, runVars>>

\* lines 179-181: content = results.join("\n\n"); Ok(Message::assistant(&content))
provider_tool_calls_join ==
    /\ tc_pc = "loop"
    /\ tc_i > Len(tc_calls)
    /\ tc_content' = join(tc_results, <<"\n\n">>)
    /\ tk_gen' = "Ok"
    /\ tc_pc' = "returned"
    /\ UNCHANGED <<tk_tool, tk_file, tk_file0, tk_result, tk_script, tk_runs,
                   tk_env, tk_valid, tc_calls, tc_i, tc_done, tc_results>>
    /\ UNCHANGED <<v_msg, v_out, v_text, pt_result, tracker, total, build, panicked,
                   loopVars>>
    /\ UNCHANGED <<exVars, sessVars, runVars>>

\* one call of Exchange::process_tool_use on the ToolUse `id` of the drawn
\* tool call
run_process_tool_use(id) ==
    /\ tk_tool # NoTool
    /\ pt_result = NoToolResult
    /\ pt_result' = process_tool_use([id |-> id, name |-> tk_tool.name,
                                      parameters |-> tk_tool.parameters])
    /\ UNCHANGED <<v_msg, v_out, v_text, tracker, total, build, panicked, loopVars, callVars>>
    /\ UNCHANGED <<exVars, sessVars, toolVars, runVars>>

\* one call of tool.validate_parameters(&tool.parameters)
run_validate_parameters ==
    /\ tk_tool # NoTool
    /\ tk_valid = "none"
    /\ tk_valid' = IF validate_parameters(tk_tool, tk_tool.parameters)
                   THEN "true" ELSE "false"
    /\ UNCHANGED <<tk_tool, tk_file, tk_file0, tk_result, tk_script, tk_runs,
                   tk_env, tk_gen>>

\* no tool call is being processed
NoToolkit ==
    /\ tk_tool = NoTool
    /\ tk_file = NoFile
    /\ tk_file0 = NoFile
    /\ tk_result = NoResult
    /\ tk_script = <<>>
    /\ tk_runs = 0
    /\ tk_env = NoEnv
    /\ tk_gen = "none"
    /\ tk_valid = "none"

-----------------------------------------------------------------------------
(* Operator input: src/input/prompt.rs *)

\* longest operator line drawn, in characters
MaxLineLen == 2

Whitespace == {" ", "\n"}
Chars      == {" ", "a"}

RECURSIVE trim_start(_)
trim_start(str) ==
    IF str # <<>> /\ Head(str) \in Whitespace THEN trim_start(Tail(str)) ELSE str

RECURSIVE trim_end(_)
trim_end(str) ==
    IF str # <<>> /\ str[Len(str)] \in Whitespace
    THEN trim_end(SubSeq(str, 1, Len(str) - 1)) ELSE str

\* str::trim
trim(str) == trim_end(trim_start(str))

\* a mutation of to_exit: the text is not trimmed
to_exit_no_trim(line) == line = <<>>

\* UserInput::to_exit (lines 15-17)
to_exit(line) == trim(line) = <<>>

\* what the terminal or the pipe delivers when a line is asked for
RawInputs ==
    {[kind |-> "line", chars |-> c] : c \in SeqsUpTo(Chars, MaxLineLen)}
    \cup {[kind |-> k, chars |-> <<>>] : k \in {"eof", "interrupted", "error"}}

NoInput == [kind |-> "none", chars |-> <<>>]

\* GoosePrompt::get_user_input (lines 41-76): Ok(UserInput{text}) or Err.
\* Off a terminal read_line hands over the line with its newline (nothing at
\* end of input) and the text is trimmed; on a terminal readline hands over
\* the line as typed, and Ctrl-C and Ctrl-D give the empty text.
get_user_input(in_terminal, raw) ==
    IF raw.kind = "error" THEN [ok |-> FALSE, text |-> <<>>]
    ELSE IF ~in_terminal
    THEN [ok |-> TRUE,
          text |-> trim(IF raw.kind = "line" THEN raw.chars \o <<"\n">> ELSE <<>>)]
    ELSE [ok |-> TRUE, text |-> IF raw.kind = "line" THEN raw.chars ELSE <<>>]

-----------------------------------------------------------------------------
(* Session::run: src/cli/session.rs:80-153 *)

\* run is entered (lines 80-91); Session::new has set the exchange
run_call ==
    /\ r_pc = "idle"
    /\ r_pc' = "loop"
    /\ UNCHANGED <<r_ret, r_line, r_body, r_hist0, r_seen>>
    /\ UNCHANGED sessVars

\* line 96: if self.interrupted.load(SeqCst)
run_check ==
    /\ r_pc = "loop"
    /\ r_hist0' = messages
    /\ r_line' = NoInput
    /\ r_body' = "none"
    /\ IF interrupted
       THEN /\ r_pc' = "recover"
            /\ sig_pending' = FALSE
       ELSE /\ r_pc' = "input"
            /\ UNCHANGED sig_pending
    /\ UNCHANGED <<r_ret, r_seen>>
    /\ UNCHANGED <<s_pc, s_messages, interrupted, stats, s_arg, s_ret, recovery,
                   s_before, s_flag0, s_backend>>

\* lines 97-98: self.handle_interrupt()?; break
run_recover ==
    /\ r_pc = "recover"
    /\ s_messages' = handle_interrupt_messages(s_messages)
    /\ recovery' = handle_interrupt_recovery(s_messages)
    /\ interrupted' = FALSE
    /\ r_seen' = TRUE
    /\ r_pc' = "finish"
    /\ UNCHANGED <<r_ret, r_line, r_body, r_hist0>>
    /\ UNCHANGED <<s_pc, stats, s_arg, s_ret, s_before, s_flag0, s_backend,
                   sig_pending>>

\* lines 102-114: get_user_input()?; if input.to_exit() { break };
\* message = Message::user(&input.text)
run_input(in_terminal, raw) ==
    /\ r_pc = "input"
    /\ r_line' = raw
    /\ LET input == get_user_input(in_terminal, raw)
       IN  IF ~input.ok
           THEN r_pc' = "returned" /\ r_ret' = "Err" /\ UNCHANGED s_arg
           ELSE IF to_exit(input.text)
           THEN r_pc' = "finish" /\ UNCHANGED <<r_ret, s_arg>>
           ELSE r_pc' = "add" /\ s_arg' = user /\ UNCHANGED r_ret
    /\ UNCHANGED <<r_body, r_hist0, r_seen>>
    /\ UNCHANGED <<s_pc, s_messages, interrupted, stats, s_ret, recovery,
                   s_before, s_flag0, s_backend, sig_pending>>

\* line 117: exchange.add_message(message.clone()) is entered
run_add ==
    /\ r_pc = "add"
    /\ add_message_call(Main, s_arg)
    /\ r_pc' = "generate"
    /\ UNCHANGED <<r_ret, r_line, r_body, r_hist0, r_seen>>
    /\ UNCHANGED sessVars

\* lines 117-125: add_message has returned, `?`; exchange.generate(..) is entered
run_generate ==
    /\ r_pc = "generate"
    /\ pc[Main] = "idle"
    /\ IF ret[Main] = "add_err"
       THEN r_pc' = "returned" /\ r_ret' = "Err" /\ UNCHANGED exVars
       ELSE r_pc' = "wait" /\ generate_lock(Main) /\ UNCHANGED r_ret
    /\ UNCHANGED <<r_line, r_body, r_hist0, r_seen>>
    /\ UNCHANGED sessVars

\* the backend answers the call run is waiting for
run_answer(u, body) ==
    /\ r_pc = "wait"
    /\ provider_answer(Main, u, body)
    /\ r_body' = body
    /\ s_backend' = TRUE
    /\ UNCHANGED <<r_pc, r_ret, r_line, r_hist0, r_seen>>
    /\ UNCHANGED <<s_pc, s_messages, interrupted, stats, s_arg, s_ret, recovery,
                   s_before, s_flag0, sig_pending>>

\* lines 125-146: generate has returned: `?` hands an error out of run;
\* otherwise stats.add_message(), stats.add_tokens(exchange.get_token_usage())
\* and the next iteration
run_return ==
    /\ r_pc = "wait"
    /\ pc[Main] = "idle"
    /\ IF ret[Main] = "gen_err"
       THEN r_pc' = "returned" /\ r_ret' = "Err" /\ UNCHANGED stats
       ELSE /\ r_pc' = "loop"
            /\ stats' = add_tokens(add_message(stats), token_usage)
            /\ UNCHANGED r_ret
    /\ UNCHANGED <<r_line, r_body, r_hist0, r_seen>>
    /\ UNCHANGED <<s_pc, s_messages, interrupted, s_arg, s_ret, recovery,
                   s_before, s_flag0, s_backend, sig_pending>>

\* lines 149-152: log_session_stats(..)?; Ok(())
run_finish(log_ok) ==
    /\ r_pc = "finish"
    /\ r_pc' = "returned"
    /\ r_ret' = IF log_ok THEN "Ok" ELSE "Err"
    /\ UNCHANGED <<r_line, r_body, r_hist0, r_seen>>
    /\ UNCHANGED sessVars

\* run was not called
NoRun ==
    /\ r_pc = "absent"
    /\ r_ret = "none"
    /\ r_line = NoInput
    /\ r_body = "none"
    /\ r_hist0 = <<>>
    /\ r_seen = FALSE

-----------------------------------------------------------------------------
(* SessionLoop: src/session/mod.rs *)

\* what a step of the SessionLoop leaves alone
LoopFrame ==
    /\ UNCHANGED <<s_pc, s_ret, s_before, s_flag0, s_backend>>
    /\ UNCHANGED <<v_msg, v_out, v_text, pt_result, total, build, panicked>>
    /\ UNCHANGED <<exVars, toolVars, runVars, callVars>>

\* run is entered (lines 77-82)
loop_run_call ==
    /\ l_pc = "idle"
    /\ l_pc' = "loop"
    /\ UNCHANGED <<s_messages, interrupted, stats, s_arg, recovery, sig_pending,
                   tracker, l_recovered, l_observed>>

\* line 87: if self.interrupted.load(SeqCst)
loop_run_check ==
    /\ l_pc = "loop"
    /\ IF interrupted
       THEN /\ l_pc' = "recover"
            /\ l_observed' = l_observed + 1
            /\ sig_pending' = FALSE
       ELSE /\ l_pc' = "input"
            /\ UNCHANGED <<l_observed, sig_pending>>
    /\ UNCHANGED <<s_messages, interrupted, stats, s_arg, recovery, tracker,
                   l_recovered>>

\* lines 88-89 with handle_interrupt (110-132): self.handle_interrupt()?; break
loop_run_recover ==
    /\ l_pc = "recover"
    /\ s_messages' = handle_interrupt_messages(s_messages)
    /\ recovery' = handle_interrupt_recovery(s_messages)
    /\ interrupted' = FALSE
    /\ l_recovered' = l_recovered + 1
    /\ l_pc' = "finish"
    /\ UNCHANGED <<stats, s_arg, sig_pending, tracker, l_observed>>

\* lines 93-100: get_user_input()?; if input.to_exit() { break };
\* message = Message::user(&input.text)
loop_run_input(in_terminal, raw) ==
    /\ l_pc = "input"
    /\ stats.total_messages < MaxTurns
    /\ LET input == get_user_input(in_terminal, raw)
       IN  IF ~input.ok
           THEN l_pc' = "returned" /\ UNCHANGED s_arg
           ELSE IF to_exit(input.text)
           THEN l_pc' = "finish" /\ UNCHANGED s_arg
           ELSE l_pc' = "process" /\ s_arg' = user
    /\ UNCHANGED <<s_messages, interrupted, stats, recovery, sig_pending,
                   tracker, l_recovered, l_observed>>

\* process_message, lines 47-52: message.validate()?; push; add_message
loop_process_message ==
    /\ l_pc = "process"
    /\ IF validate(s_arg)
       THEN /\ s_messages' = Append(s_messages, s_arg)
            /\ stats' = add_message(stats)
            /\ l_pc' = "pm_check"
       ELSE /\ l_pc' = "returned"
            /\ UNCHANGED <<s_messages, stats>>
    /\ UNCHANGED <<interrupted, s_arg, recovery, sig_pending, tracker,
                   l_recovered, l_observed>>

\* process_message, line 55: if self.interrupted.load(SeqCst); otherwise
\* Ok(()) (lines 60-66 are a TODO) and the next iteration
loop_process_message_check ==
    /\ l_pc = "pm_check"
    /\ IF interrupted
       THEN /\ l_pc' = "pm_recover"
            /\ l_observed' = l_observed + 1
            /\ sig_pending' = FALSE
       ELSE /\ l_pc' = "loop"
            /\ UNCHANGED <<l_observed, sig_pending>>
    /\ UNCHANGED <<s_messages, interrupted, stats, s_arg, recovery, tracker,
                   l_recovered>>

\* process_message, lines 56-57: self.handle_interrupt()?; return Ok(())
loop_process_message_recover ==
    /\ l_pc = "pm_recover"
    /\ s_messages' = handle_interrupt_messages(s_messages)
    /\ recovery' = handle_interrupt_recovery(s_messages)
    /\ interrupted' = FALSE
    /\ l_recovered' = l_recovered + 1
    /\ l_pc' = "loop"
    /\ UNCHANGED <<stats, s_arg, sig_pending, tracker, l_observed>>

\* lines 104-107 with log_session_stats (134-158): create_dir_all(..)?;
\* stats.clone(), complete(), track_session(stats); Ok(())
loop_log_session_stats(log_ok) ==
    /\ l_pc = "finish"
    /\ l_pc' = "returned"
    /\ tracker' = IF log_ok THEN track_session(tracker, complete(stats)) ELSE tracker
    /\ UNCHANGED <<s_messages, interrupted, stats, s_arg, recovery, sig_pending,
                   l_recovered, l_observed>>

\* Drop for SessionLoop (161-167): self.handle_interrupt(), whatever the flag
loop_drop ==
    /\ l_pc \in {"idle", "returned"}
    /\ s_messages' = handle_interrupt_messages(s_messages)
    /\ recovery' = handle_interrupt_recovery(s_messages)
    /\ interrupted' = FALSE
    /\ l_recovered' = l_recovered + 1
    /\ l_pc' = "dropped"
    /\ UNCHANGED <<stats, s_arg, sig_pending, tracker, l_observed>>

\* the Ctrl-C handler set in SessionLoop::new (29-31): store(true)
loop_interrupt ==
    /\ l_pc \notin {"absent", "dropped"}
    /\ interrupted' = TRUE
    /\ sig_pending' = TRUE
    /\ UNCHANGED <<s_messages, stats, s_arg, recovery, tracker, l_pc,
                   l_recovered, l_observed>>

-----------------------------------------------------------------------------
(* Construction *)

\* Exchange::new (mod.rs:42-51) with OpenAIProvider::new (openai.rs:48-60)
ExchangeNew ==
    /\ messages = <<>>
    /\ token_usage = 0
    /\ messages_lock = NoTask
    /\ last_token_usage = 0
    /\ pc = [t \in Tasks |-> "idle"]
    /\ arg = [t \in Tasks |-> NoMsg]
    /\ response = [t \in Tasks |-> NoMsg]
    /\ ret = [t \in Tasks |-> "none"]
    /\ gen_hist0 = [t \in Tasks |-> <<>>]
    /\ gen_tok0 = [t \in Tasks |-> 0]
    /\ gen_usage = [t \in Tasks |-> NoUsage]

\* read_from_file (utils/session_file.rs:29-37): every line that parses
load_session == SeqsUpTo(CallerMessages, MaxLoaded)

\* Session::new (session.rs:30-78): SessionStats::new, messages.extend(load_session()?)
SessionNew ==
    /\ s_pc = "idle"
    /\ s_messages \in load_session
    /\ interrupted = FALSE
    /\ stats = SessionStats_new
    /\ s_arg = NoMsg
    /\ s_ret = "none"
    /\ recovery = "none"
    /\ s_before = <<>>
    /\ s_flag0 = FALSE
    /\ s_backend = FALSE
    /\ sig_pending = FALSE

\* no Session: the Exchange is used directly by the client tasks
NoSession ==
    /\ s_pc = "absent"
    /\ s_messages = <<>>
    /\ interrupted = FALSE
    /\ stats = SessionStats_new
    /\ s_arg = NoMsg
    /\ s_ret = "none"
    /\ recovery = "none"
    /\ s_before = <<>>
    /\ s_flag0 = FALSE
    /\ s_backend = FALSE
    /\ sig_pending = FALSE

\* no SessionLoop was built
NoLoop == l_pc = "absent" /\ l_recovered = 0 /\ l_observed = 0

\* no answer with tool calls is being handled
NoCalls ==
    /\ tc_calls = <<>>
    /\ tc_pc = "absent"
    /\ tc_i = 0
    /\ tc_done = <<>>
    /\ tc_results = <<>>
    /\ tc_content = <<>>

\* none of the calls on single values was made
NoUnit ==
    /\ NoLoop
    /\ NoCalls
    /\ v_text = NoText
    /\ pt_result = NoToolResult
    /\ tracker = <<>>
    /\ total = NoTotal
    /\ build = "none"
    /\ panicked = FALSE

NoValidate == v_msg = NoMsg /\ v_out = "none" /\ NoUnit

Init ==
    /\ ExchangeNew
    /\ NoSession \/ SessionNew
    /\ NoValidate
    /\ NoToolkit
    /\ NoRun

-----------------------------------------------------------------------------
(* Next-state relation *)

\* a client task takes one step of a call on the Exchange
Direct == s_pc = "absent" /\ UNCHANGED <<sessVars, restVars>>

ClientAddCall     == Direct /\ \E t \in Clients, m \in CallerMessages : add_message_call(t, m)
ClientAddValidate == Direct /\ \E t \in Clients : add_message_validate(t)
ClientAddPush     == Direct /\ \E t \in Clients : add_message_push(t)
ClientRewind      == Direct /\ \E t \in Clients : rewind(t)
ClientGenLock     == Direct /\ \E t \in Clients : generate_lock(t)
ClientGenError    == Direct /\ \E t \in Clients : provider_error(t)
ClientGenAnswer   == Direct /\ \E t \in Clients, u \in Usages, b \in Bodies : provider_answer(t, u, b)
ClientGenCount    == Direct /\ \E t \in Clients : generate_count(t)
ClientGenRelock   == Direct /\ \E t \in Clients : generate_relock(t)

\* the session's own steps
SessionCall     == (\E m \in CallerMessages : process_message_call(m)) /\ UNCHANGED <<exVars, restVars>>
SessionValidate == process_message_validate /\ UNCHANGED <<exVars, restVars>>
SessionCheck    == process_message_check /\ UNCHANGED <<exVars, restVars>>
SessionRecover  == handle_interrupt /\ UNCHANGED <<exVars, restVars>>
SessionGenerate == process_message_generate /\ UNCHANGED restVars
SessionReturn   == process_message_return /\ UNCHANGED <<exVars, restVars>>
SessionSignal   == interrupt /\ UNCHANGED <<exVars, restVars>>

\* the steps of the generate call the session is waiting for
InBackend == s_backend' = TRUE /\ UNCHANGED <<s_pc, s_messages, interrupted, stats,
                 s_arg, s_ret, recovery, s_before, s_flag0, sig_pending>>
SessionGenError  == provider_error(Main) /\ InBackend /\ UNCHANGED restVars
SessionGenAnswer == (\E u \in Usages, b \in Bodies : provider_answer(Main, u, b))
                    /\ InBackend /\ UNCHANGED restVars
SessionGenCount  == generate_count(Main) /\ UNCHANGED <<sessVars, restVars>>
SessionGenRelock == generate_relock(Main) /\ UNCHANGED <<sessVars, restVars>>

Next ==
    \/ ClientAddCall
    \/ ClientAddValidate
    \/ ClientAddPush
    \/ ClientRewind
    \/ ClientGenLock
    \/ ClientGenError
    \/ ClientGenAnswer
    \/ ClientGenCount
    \/ ClientGenRelock
    \/ SessionCall
    \/ SessionValidate
    \/ SessionCheck
    \/ SessionRecover
    \/ SessionGenerate
    \/ SessionReturn
    \/ SessionSignal
    \/ SessionGenError
    \/ SessionGenAnswer
    \/ SessionGenCount
    \/ SessionGenRelock

Spec == Init /\ [][Next]_vars

\* the steps the task inside process_message takes by itself; the executor
\* polls the task for as long as it can go on (#[tokio::main], main.rs)
SessionTask ==
    \/ SessionValidate
    \/ SessionCheck
    \/ SessionRecover
    \/ SessionGenerate
    \/ SessionGenCount
    \/ SessionGenRelock
    \/ SessionReturn

SpecFair == Spec /\ WF_vars(SessionTask)

\* the steps client task t takes by itself inside a call on the Exchange
\* (entering a call and the backend's answer are not its own)
ClientTask(t) ==
    /\ Direct
    /\ \/ add_message_validate(t)
       \/ add_message_push(t)
       \/ generate_count(t)
       \/ generate_relock(t)

SpecClientsFair == Spec /\ \A t \in Clients : WF_vars(ClientTask(t))

-----------------------------------------------------------------------------
(* Message::validate on constructed messages *)

\* Message::new(role, content) over every role and content vector
Constructed == {Message(r, c) : r \in Role, c \in SeqsUpTo(Content, MaxContent)}

ValidateInit ==
    /\ ExchangeNew
    /\ NoSession
    /\ v_msg \in Constructed
    /\ v_out = "none"
    /\ NoUnit
    /\ NoToolkit
    /\ NoRun

run_validate ==
    /\ v_msg # NoMsg
    /\ v_out = "none"
    /\ v_out' = IF validate(v_msg) THEN "ok" ELSE "err"
    /\ UNCHANGED <<exVars, sessVars, v_msg, unitVars, toolVars, runVars>>

SpecValidate == ValidateInit /\ [][run_validate]_vars

-----------------------------------------------------------------------------
(* DefaultToolkit::process_tool on drawn tool calls *)

\* the files a call can find at `path`: none, or one of 0..MaxLines lines
FileLines == <<"l1", "l2", "l3", "l4", "l5">>
Files == {NoFile} \cup {File(SubSeq(FileLines, 1, n)) : n \in 0..MaxLines}

\* a parameter as the model may send it: missing, a string, or of another type
StrParam(x) == {JAbsent, JStr(x), JInt(7)}

BashCalls ==
    {Tool("bash", NotObject, <<>>)} \cup
    {Tool("bash", Object([working_dir |-> w, source_path |-> s, command |-> c]), <<>>) :
        w \in StrParam("dir"), s \in StrParam("env.sh"), c \in StrParam("ls")}

\* what a view_range can hold: integers around the file's bounds and a string
RangeItems  == {JInt(n) : n \in -1..(MaxLines + 1)} \cup {JStr("x")}
ViewRanges  ==
    {JAbsent, JStr("1-2"), JArr(<<>>), JArr(<<JInt(1)>>),
     JArr(<<JInt(1), JInt(2), JInt(3)>>)}
    \cup {JArr(<<x, y>>) : x \in RangeItems, y \in RangeItems}

EditorCommands ==
    {JAbsent, JInt(7), JStr("view"), JStr("create"), JStr("str_replace"),
     JStr("insert"), JStr("undo_edit"), JStr("delete")}

\* text_editor calls: every command with and without path, and for each
\* sub-command its own fields in every state
EditorCalls ==
    {Tool("text_editor", NotObject, <<>>)} \cup
    {Tool("text_editor", Object([command |-> c, path |-> p]), <<>>) :
        c \in EditorCommands, p \in StrParam("f")} \cup
    {Tool("text_editor", Object([command |-> JStr("view"), path |-> JStr("f"),
                                 view_range |-> r]), <<>>) : r \in ViewRanges} \cup
    {Tool("text_editor", Object([command |-> JStr("create"), path |-> p,
                                 file_text |-> x]), <<>>) :
        p \in {JAbsent, JStr("f")}, x \in StrParam("text")} \cup
    {Tool("text_editor", Object([command |-> JStr("str_replace"), path |-> p,
                                 old_str |-> x, new_str |-> y]), <<>>) :
        p \in {JAbsent, JStr("f")}, x \in StrParam("l1"), y \in StrParam("new")} \cup
    {Tool("text_editor", Object([command |-> JStr("insert"), path |-> p,
                                 new_str |-> y, insert_line |-> k]), <<>>) :
        p \in {JAbsent, JStr("f")}, y \in StrParam("new"),
        k \in {JAbsent, JStr("1")} \cup {JInt(n) : n \in -1..(MaxLines + 1)}}

OtherCalls ==
    {Tool("fetch_web_content", Object([url |-> JStr("u")]), <<>>),
     Tool("process_manager", Object([command |-> JStr("list")]), <<>>),
     Tool("no_such_tool", Object([command |-> JStr("ls")]), <<>>),
     Tool("no_such_tool", NotObject, <<>>)}

ToolCalls == BashCalls \cup EditorCalls \cup OtherCalls

ToolkitInit ==
    /\ ExchangeNew
    /\ NoSession
    /\ NoValidate
    /\ NoRun
    /\ tk_tool \in ToolCalls
    /\ tk_file \in Files
    /\ tk_file0 = tk_file
    /\ tk_result = NoResult
    /\ tk_script = <<>>
    /\ tk_runs = 0
    /\ tk_env = NoEnv
    /\ tk_gen = "none"
    /\ tk_valid = "none"

Aside == UNCHANGED <<exVars, sessVars, valVars, runVars>>

ToolBash          == process_tool({"bash"}) /\ Aside
ToolTextEditor    == process_tool({"text_editor"}) /\ Aside
ToolUnimplemented == process_tool({"fetch_web_content", "process_manager"}) /\ Aside
ToolUnknown       == process_tool({"no_such_tool"}) /\ Aside
ProviderToolCall  == provider_tool_call /\ Aside
ExchangeToolUse   == \E id \in 1..MaxToolId : run_process_tool_use(id)

ToolkitNext ==
    \/ ToolBash
    \/ ToolTextEditor
    \/ ToolUnimplemented
    \/ ToolUnknown
    \/ ProviderToolCall
    \/ ExchangeToolUse

SpecToolkit == ToolkitInit /\ [][ToolkitNext]_vars

-----------------------------------------------------------------------------
(* Tool::validate_parameters on drawn tools *)

\* longest `required` list drawn
MaxRequired == 2

\* the names a required list is drawn from: the ones DefaultToolkit::new uses
RequiredNames == {"command", "path", "url"}

\* a parameter object over RequiredNames and one key no tool requires
ParamObjects ==
    {NotObject} \cup
    {Object([command |-> c, path |-> p, url |-> u, new_str |-> x]) :
        c \in {JAbsent, JNull, JStr("view")}, p \in {JAbsent, JStr("f")},
        u \in {JAbsent, JStr("u")}, x \in {JAbsent, JStr("new")}}

ParamsInit ==
    /\ ExchangeNew
    /\ NoSession
    /\ NoValidate
    /\ NoRun
    /\ tk_tool \in {Tool("tool", ps, rq) :
                      ps \in ParamObjects, rq \in SeqsUpTo(RequiredNames, MaxRequired)}
    /\ tk_file = NoFile
    /\ tk_file0 = NoFile
    /\ tk_result = NoResult
    /\ tk_script = <<>>
    /\ tk_runs = 0
    /\ tk_env = NoEnv
    /\ tk_gen = "none"
    /\ tk_valid = "none"

ValidateParameters == run_validate_parameters /\ Aside

SpecParams == ParamsInit /\ [][ValidateParameters]_vars

-----------------------------------------------------------------------------
(* Session::new followed by Session::run *)

RunInit ==
    /\ ExchangeNew
    /\ SessionNew
    /\ NoValidate
    /\ NoToolkit
    /\ r_pc = "idle"
    /\ r_ret = "none"
    /\ r_line = NoInput
    /\ r_body = "none"
    /\ r_hist0 = <<>>
    /\ r_seen = FALSE

RunAside == UNCHANGED <<valVars, toolVars>>

RunCall      == run_call /\ UNCHANGED exVars /\ RunAside
RunCheck     == run_check /\ UNCHANGED exVars /\ RunAside
RunRecover   == run_recover /\ UNCHANGED exVars /\ RunAside
RunInput     == (\E in_terminal \in BOOLEAN, raw \in RawInputs : run_input(in_terminal, raw))
                /\ UNCHANGED exVars /\ RunAside
RunAdd       == run_add /\ RunAside
RunAddValidate == r_pc # "absent" /\ add_message_validate(Main)
                  /\ UNCHANGED <<sessVars, runVars>> /\ RunAside
RunAddPush   == r_pc # "absent" /\ add_message_push(Main)
                /\ UNCHANGED <<sessVars, runVars>> /\ RunAside
RunGenerate  == run_generate /\ RunAside
RunGenError  == r_pc = "wait" /\ provider_error(Main) /\ InBackend
                /\ UNCHANGED runVars /\ RunAside
RunGenAnswer == (\E u \in Usages, b \in Bodies : run_answer(u, b)) /\ RunAside
RunGenCount  == r_pc = "wait" /\ generate_count(Main)
                /\ UNCHANGED <<sessVars, runVars>> /\ RunAside
RunGenRelock == r_pc = "wait" /\ generate_relock(Main)
                /\ UNCHANGED <<sessVars, runVars>> /\ RunAside
RunReturn    == run_return /\ UNCHANGED exVars /\ RunAside
RunFinish    == (\E log_ok \in BOOLEAN : run_finish(log_ok)) /\ UNCHANGED exVars /\ RunAside
RunSignal    == r_pc # "absent" /\ interrupt /\ UNCHANGED <<exVars, restVars>>

RunNext ==
    \/ RunCall
    \/ RunCheck
    \/ RunRecover
    \/ RunInput
    \/ RunAdd
    \/ RunAddValidate
    \/ RunAddPush
    \/ RunGenerate
    \/ RunGenError
    \/ RunGenAnswer
    \/ RunGenCount
    \/ RunGenRelock
    \/ RunReturn
    \/ RunFinish
    \/ RunSignal

SpecRun == RunInit /\ [][RunNext]_vars

\* the steps the task inside run takes by itself (the operator's line and
\* the backend's answer are not its own)
RunTask ==
    \/ RunCall
    \/ RunCheck
    \/ RunRecover
    \/ RunAdd
    \/ RunAddValidate
    \/ RunAddPush
    \/ RunGenerate
    \/ RunGenCount
    \/ RunGenRelock
    \/ RunReturn
    \/ RunFinish

SpecRunFair == SpecRun /\ WF_vars(RunTask)

-----------------------------------------------------------------------------
(* Session::run followed by calls of process_message on the same Session *)

\* run has returned; the Session is still the caller's (`&mut self`,
\* session.rs:80) and process_message is pub
AfterRun == r_pc = "returned"

ThenCall      == AfterRun /\ SessionCall
ThenValidate  == AfterRun /\ SessionValidate
ThenCheck     == AfterRun /\ SessionCheck
ThenRecover   == AfterRun /\ SessionRecover
ThenGenerate  == AfterRun /\ SessionGenerate
ThenGenError  == AfterRun /\ SessionGenError
ThenGenAnswer == AfterRun /\ SessionGenAnswer
ThenGenCount  == AfterRun /\ SessionGenCount
ThenGenRelock == AfterRun /\ SessionGenRelock
ThenReturn    == AfterRun /\ SessionReturn

RunThenNext ==
    \/ RunNext
    \/ ThenCall
    \/ ThenValidate
    \/ ThenCheck
    \/ ThenRecover
    \/ ThenGenerate
    \/ ThenGenError
    \/ ThenGenAnswer
    \/ ThenGenCount
    \/ ThenGenRelock
    \/ ThenReturn

SpecRunThen == RunInit /\ [][RunThenNext]_vars

-----------------------------------------------------------------------------
(* SessionLoop::new followed by run and drop *)

\* SessionLoop::new (session/mod.rs:25-44)
LoopInit ==
    /\ ExchangeNew
    /\ NoSession
    /\ v_msg = NoMsg
    /\ v_out = "none"
    /\ v_text = NoText
    /\ pt_result = NoToolResult
    /\ tracker = <<>>
    /\ total = NoTotal
    /\ build = "none"
    /\ panicked = FALSE
    /\ l_pc = "idle"
    /\ l_recovered = 0
    /\ l_observed = 0
    /\ NoCalls
    /\ NoToolkit
    /\ NoRun

LoopRunCall       == loop_run_call /\ LoopFrame
LoopRunCheck      == loop_run_check /\ LoopFrame
LoopRunRecover    == loop_run_recover /\ LoopFrame
LoopRunInput      == (\E in_terminal \in BOOLEAN, raw \in RawInputs :
                         loop_run_input(in_terminal, raw)) /\ LoopFrame
LoopProcess       == loop_process_message /\ LoopFrame
LoopProcessCheck  == loop_process_message_check /\ LoopFrame
LoopProcessRecover == loop_process_message_recover /\ LoopFrame
LoopLogStats      == (\E log_ok \in BOOLEAN : loop_log_session_stats(log_ok)) /\ LoopFrame
LoopDrop          == loop_drop /\ LoopFrame
LoopSignal        == loop_interrupt /\ LoopFrame

LoopNext ==
    \/ LoopRunCall
    \/ LoopRunCheck
    \/ LoopRunRecover
    \/ LoopRunInput
    \/ LoopProcess
    \/ LoopProcessCheck
    \/ LoopProcessRecover
    \/ LoopLogStats
    \/ LoopDrop
    \/ LoopSignal

SpecLoop == LoopInit /\ [][LoopNext]_vars

-----------------------------------------------------------------------------
(* OpenAIProvider::generate on answers that list several tool calls *)

\* the most tool calls one answer lists
MaxCalls == 2

\* the tools the model may name: a bash command, a text_editor create, a
\* text_editor view and a tool that does not exist
ListedTools ==
    {Tool("bash", Object([working_dir |-> JAbsent, source_path |-> JAbsent,
                          command |-> JStr("ls")]), <<>>),
     Tool("text_editor", Object([command |-> JStr("create"), path |-> JStr("f"),
                                 file_text |-> JStr("text")]), <<>>),
     Tool("text_editor", Object([command |-> JStr("view"), path |-> JStr("f")]), <<>>),
     Tool("no_such_tool", Object([command |-> JStr("ls")]), <<>>)}

\* a tool call of the answer: its arguments string may fail to parse
ListedCalls == [tool : ListedTools, parses : BOOLEAN]

\* the answer has arrived and message.tool_calls is Some (line 159)
CallsInit ==
    /\ ExchangeNew
    /\ NoSession
    /\ NoRun
    /\ NoLoop
    /\ v_msg = NoMsg
    /\ v_out = "none"
    /\ v_text = NoText
    /\ pt_result = NoToolResult
    /\ tracker = <<>>
    /\ total = NoTotal
    /\ build = "none"
    /\ panicked = FALSE
    /\ tk_tool = NoTool
    /\ tk_file \in Files
    /\ tk_file0 = tk_file
    /\ tk_result = NoResult
    /\ tk_script = <<>>
    /\ tk_runs = 0
    /\ tk_env = NoEnv
    /\ tk_gen = "none"
    /\ tk_valid = "none"
    /\ tc_calls \in SeqsUpTo(ListedCalls, MaxCalls)
    /\ tc_pc = "loop"
    /\ tc_i = 1
    /\ tc_done = <<>>
    /\ tc_results = <<>>
    /\ tc_content = <<>>

CallsStep == \E env \in Envs : provider_tool_calls_step(env)
CallsJoin == provider_tool_calls_join

CallsNext ==
    \/ CallsStep
    \/ CallsJoin

SpecCalls == CallsInit /\ [][CallsNext]_vars

-----------------------------------------------------------------------------
(* Message::text on constructed messages *)

\* largest number of a Text drawn
MaxTextId == 2

\* messages over Text items with different texts, a ToolUse and a ToolResult
TextMessages ==
    {Message(r, c) : r \in Role,
        c \in SeqsUpTo({TextNo(i) : i \in 0..MaxTextId} \cup {ToolUse(1), ToolResult(1)},
                       MaxContent)}

TextInit ==
    /\ ExchangeNew
    /\ NoSession
    /\ v_msg \in TextMessages
    /\ v_out = "none"
    /\ NoUnit
    /\ NoToolkit
    /\ NoRun

run_text ==
    /\ v_msg # NoMsg
    /\ ~v_text.done
    /\ v_text' = [done |-> TRUE, chars |-> text(v_msg)]
    /\ UNCHANGED <<v_msg, v_out, pt_result, tracker, total, build, panicked, loopVars, callVars>>
    /\ UNCHANGED <<exVars, sessVars, toolVars, runVars>>

SpecText == TextInit /\ [][run_text]_vars

-----------------------------------------------------------------------------
(* SessionStats and StatsTracker on their own *)

StatsInit ==
    /\ ExchangeNew
    /\ NoSession
    /\ v_msg = NoMsg
    /\ v_out = "none"
    /\ v_text = NoText
    /\ pt_result = NoToolResult
    /\ tracker = <<>>
    /\ total = NoTotal
    /\ build \in {"debug", "release"}
    /\ panicked = FALSE
    /\ NoLoop
    /\ NoCalls
    /\ NoToolkit
    /\ NoRun

StatsAside ==
    /\ UNCHANGED <<s_pc, s_messages, interrupted, s_arg, s_ret, recovery,
                   s_before, s_flag0, s_backend, sig_pending>>
    /\ UNCHANGED <<v_msg, v_out, v_text, pt_result, loopVars, callVars>>
    /\ UNCHANGED <<exVars, toolVars, runVars>>

StatsAddMessage    == stats_add_message /\ StatsAside
StatsAddTokens     == (\E tokens \in TokenInputs : stats_add_tokens(tokens)) /\ StatsAside
StatsComplete      == stats_complete /\ StatsAside
StatsTrackSession  == stats_track_session /\ StatsAside
StatsGetTotalStats == stats_get_total_stats /\ StatsAside

StatsNext ==
    \/ StatsAddMessage
    \/ StatsAddTokens
    \/ StatsComplete
    \/ StatsTrackSession
    \/ StatsGetTotalStats

SpecStats == StatsInit /\ [][StatsNext]_vars

-----------------------------------------------------------------------------
(* Properties *)

Last(h)  == h[Len(h)]
Front(h) == SubSeq(h, 1, Len(h) - 1)
Kinds(m) == {m.content[i].kind : i \in 1..Len(m.content)}

\* the role/content rule of the data model: a User message carries no
\* ToolUse, an Assistant message carries no ToolResult
RoleContentInvariant(m) ==
    /\ m.role = "User" => "ToolUse" \notin Kinds(m)
    /\ m.role = "Assistant" => "ToolResult" \notin Kinds(m)

\* C1: add_message is atomic. A message that fails validate() makes
\* add_message return an error with the history unchanged; a message that
\* passes is appended at the end of the history and nothing else changes.
\* Session::process_message with a message that fails validate() returns an
\* error and changes neither Session.messages nor the statistics.
C1_AddMessageAtomic ==
    [][ /\ \A t \in Tasks :
            /\ (pc[t] = "am_validate" /\ pc'[t] # "am_validate" /\ ~validate(arg[t]))
                  => (pc'[t] = "idle" /\ ret'[t] = "add_err" /\ messages' = messages)
            /\ (pc[t] = "am_validate" /\ pc'[t] # "am_validate" /\ validate(arg[t]))
                  => (pc'[t] = "am_lock" /\ arg'[t] = arg[t] /\ messages' = messages)
            /\ (pc[t] = "am_lock" /\ pc'[t] # "am_lock")
                  => (ret'[t] = "add_ok" /\ messages' = Append(messages, arg[t]))
        /\ (s_pc = "pm_validate" /\ s_pc' # "pm_validate" /\ ~validate(s_arg))
              => (s_ret' = "err_invalid" /\ s_messages' = s_messages /\ stats' = stats)
      ]_vars

\* C1 witness: one client's add_message was rejected, the other's was
\* accepted and its message is in the history
C1_Witness ==
    /\ ret["t1"] = "add_err"
    /\ ret["t2"] = "add_ok"
    /\ pc["t1"] = "idle" /\ pc["t2"] = "idle"
    /\ Len(messages) = 1

\* C2: every message in a conversation history (the Exchange's and the
\* Session's) satisfies the role/content rule, whatever operations ran,
\* session start with a persisted session included.
C2_HistoryValid ==
    /\ \A i \in 1..Len(messages) : RoleContentInvariant(messages[i])
    /\ \A i \in 1..Len(s_messages) : RoleContentInvariant(s_messages[i])

\* C3: once generate has counted the usage of a successful backend call, the
\* counter has grown by exactly the usage this call's answer reported (by
\* nothing when it reported none).
C3_UsageOfThisCall ==
    \A t \in Tasks :
        pc[t] = "g_relock" => token_usage = gen_tok0[t] + gen_usage[t]

\* C4: when the backend call fails, generate returns an error and both the
\* history and the token counter are what they were when generate was
\* called: no partial Assistant message is left.
C4_FailureChangesNothing ==
    [][ \A t \in Tasks :
            (pc[t] = "g_call" /\ ret'[t] = "gen_err")
               => /\ pc'[t] = "idle"
                  /\ messages' = gen_hist0[t]
                  /\ token_usage' = gen_tok0[t]
                  /\ messages_lock' = NoTask
      ]_vars

\* C4 witness: a generate call on a non-empty history returned an error
\* after the backend had reported a usage
C4_Witness ==
    /\ ret["t1"] = "gen_err"
    /\ pc["t1"] = "idle"
    /\ Len(messages) = 2
    /\ last_token_usage > 0
    /\ token_usage = 0

\* C5: interrupt recovery on a history ending in a User message removes
\* exactly that message and keeps the earlier ones; on a history ending in an
\* Assistant message with ToolUse it leaves the history as it is; in both
\* cases it clears the flag.
C5_Recovery ==
    [][ (s_pc = "pm_recover" /\ s_pc' # "pm_recover")
           => LET h == s_messages
              IN  /\ (h # <<>> /\ Last(h).role = "User")
                        => s_messages' = Front(h)
                  /\ (h # <<>> /\ Last(h).role = "Assistant"
                               /\ "ToolUse" \in Kinds(Last(h)))
                        => s_messages' = h
                  /\ interrupted' = FALSE
      ]_vars

\* C5 witness: recovery found an Assistant message with ToolUse at the end
\* of a two-message history and left both messages
C5_Witness ==
    /\ s_pc = "idle"
    /\ s_ret = "ok_interrupted"
    /\ recovery = "tool_call"
    /\ Len(s_messages) = 2
    /\ Last(s_messages).role = "Assistant"
    /\ s_arg = Last(s_messages)
    /\ ~interrupted

\* C6: no interrupt signal is lost: a signal that set the flag and that no
\* load of the flag has observed yet still finds the flag set.
C6_NoSignalLost == sig_pending => interrupted

\* C7: process_message called with the flag set and a valid User message
\* goes to recovery, not to the backend, and returns Ok with the flag
\* cleared and Session.messages as it was before the call.
C7_InterruptedTurn ==
    [][ /\ (s_flag0 /\ s_pc = "pm_check") => s_pc' \in {"pm_check", "pm_recover"}
        /\ (s_flag0 /\ is_user(s_arg) /\ s_pc = "pm_recover" /\ s_pc' # "pm_recover")
              => /\ s_pc' = "idle"
                 /\ s_ret' = "ok_interrupted"
                 /\ ~interrupted'
                 /\ s_messages' = s_before
                 /\ ~s_backend'
      ]_vars

\* C7 witness: such a call has returned on a session that already held a message
C7_Witness ==
    /\ s_pc = "idle"
    /\ s_ret = "ok_interrupted"
    /\ s_flag0
    /\ is_user(s_arg)
    /\ s_messages = s_before
    /\ Len(s_before) = 2
    /\ stats.total_messages = 3
    /\ ~interrupted

\* C8 as stated: validate() succeeds iff the role/content rule holds, the
\* empty content vector included.
C8_ValidateIffRule ==
    v_out # "none" => (v_out = "ok" <=> RoleContentInvariant(v_msg))

\* C8 amended: validate() succeeds iff the message has at least one content
\* item and the role/content rule holds.
C8_ValidateIffNonEmptyRule ==
    v_out # "none" =>
        (v_out = "ok" <=> (v_msg.content # <<>> /\ RoleContentInvariant(v_msg)))

\* C8 witness: validate rejected an Assistant message of Text, ToolUse and
\* ToolResult
C8_Witness ==
    /\ v_out = "err"
    /\ v_msg.role = "Assistant"
    /\ Kinds(v_msg) = {"Text", "ToolUse", "ToolResult"}

\* C9: referential integrity: every ToolResult in the Exchange history has
\* the id of a ToolUse carried by an Assistant message earlier in it.
C9_ReferentialIntegrity ==
    \A i \in 1..Len(messages) :
        \A j \in 1..Len(messages[i].content) :
            messages[i].content[j].kind = "ToolResult"
              => \E k \in 1..(i - 1) :
                    /\ messages[k].role = "Assistant"
                    /\ \E l \in 1..Len(messages[k].content) :
                          messages[k].content[l] = ToolUse(messages[i].content[j].id)

C11_RewindContract ==
    [][ \A t \in Clients :
            rewind(t)
               => /\ token_usage' = token_usage
                  /\ messages # <<>>
                        => (messages' = Front(messages) /\ ret'[t] = "rewind_ok")
                  /\ messages = <<>>
                        => (messages' = <<>> /\ ret'[t] = "rewind_err")
      ]_vars

\* C12: a tool failure never ends the turn: whatever tool call the model
\* issues, process_tool hands back a value (an error-flagged result when the
\* call failed), and no error leaves the executor or generate.
C12_ToolFailureIsResult ==
    /\ tk_result.kind \notin {"Err", "Panic"}
    /\ tk_gen # "Err"

\* C13: when the backend call of a turn of Session::run fails, the loop does
\* not end: run does not return, and the loop goes back to its start to
\* await the next operator line.
C13_BackendFailureKeepsLoop ==
    [][ (r_pc = "wait" /\ pc[Main] = "idle" /\ ret[Main] = "gen_err"
                       /\ r_pc' # "wait")
           => (r_pc' \in {"loop", "input"} /\ r_ret' = "none")
      ]_vars

\* C14: when the backend answered with tool calls, the Assistant message
\* generate obtained carries the ToolUse entries (which are then dispatched
\* and answered by one User message of ToolResults before generation runs
\* again).
C14_ToolUseTurn ==
    (r_body = "tool_calls" /\ pc[Main] \in {"g_count", "g_relock"})
        => has_tool_use(response[Main])

\* C15: after the loop has observed an interruption and recovery has run,
\* the loop goes back to awaiting operator input; it does not end.
C15_InterruptKeepsLoop ==
    [][ (r_pc = "recover" /\ r_pc' # "recover") => r_pc' \in {"loop", "input"} ]_vars

\* an operator line that is empty or whitespace only, or end of input
Blank(raw) ==
    \/ raw.kind = "eof"
    \/ raw.kind = "line" /\ \A n \in 1..Len(raw.chars) : raw.chars[n] \in Whitespace

NonBlank(raw) ==
    raw.kind = "line" /\ \E n \in 1..Len(raw.chars) : raw.chars[n] \notin Whitespace

\* C16: in Session::run a blank line or end of input takes the loop to its
\* end with no message appended and no backend call; a non-blank line makes
\* one User Text message, and when generation starts the history is the
\* history of the iteration's start followed by exactly that message.
C16_InputLine ==
    [][ /\ (r_pc = "input" /\ r_pc' # "input" /\ Blank(r_line'))
              => (r_pc' = "finish" /\ UNCHANGED <<exVars, s_messages, stats>>)
        /\ r_pc = "finish"
              => (r_pc' \in {"finish", "returned"}
                  /\ UNCHANGED <<exVars, s_messages, stats>>)
        /\ (r_pc = "input" /\ r_pc' # "input" /\ NonBlank(r_line'))
              => (r_pc' = "add" /\ s_arg' = user /\ UNCHANGED exVars)
        /\ (r_pc # "absent" /\ pc[Main] # "g_call" /\ pc'[Main] = "g_call")
              => (messages' = Append(r_hist0, user) /\ NonBlank(r_line))
      ]_vars

\* C16 witness: run has returned Ok after a line of two blanks, with the
\* history empty and the backend never called
C16_Witness ==
    /\ r_pc = "returned"
    /\ r_ret = "Ok"
    /\ r_line = [kind |-> "line", chars |-> <<" ", " ">>]
    /\ messages = <<>>
    /\ ~s_backend
    /\ ~r_seen

\* the names in a tool's required list, and the keys a parameter value has
RequiredSet(tool) == {tool.required[n] : n \in 1..Len(tool.required)}
KeySet(params) ==
    IF params.is_object THEN {k \in Keys : params.fields[k] # JAbsent} ELSE {}

\* C17: validate_parameters fails when some required name is no key of the
\* parameters, succeeds when every required name is a key, whatever other
\* keys there are, and with an empty required list accepts everything.
C17_ValidateParameters ==
    tk_valid # "none" =>
        LET req  == RequiredSet(tk_tool)
            keys == KeySet(tk_tool.parameters)
        IN  /\ (\E name \in req : name \notin keys) => tk_valid = "false"
            /\ req \subseteq keys => tk_valid = "true"
            /\ req = {} => tk_valid = "true"

\* C17 witness: a tool requiring command and path was given command and an
\* extra key but no path, and validation failed
C17_Witness ==
    /\ tk_valid = "false"
    /\ tk_tool.required = <<"command", "path">>
    /\ KeySet(tk_tool.parameters) = {"command", "new_str"}

\* a text_editor view call on an existing file with a view_range of exactly
\* two integers
IsRangedView ==
    /\ tk_tool.name = "text_editor"
    /\ get(tk_tool.parameters, "command") = JStr("view")
    /\ as_str(get(tk_tool.parameters, "path"))
    /\ tk_file0.exists
    /\ get(tk_tool.parameters, "view_range").t = "arr"
    /\ Len(get(tk_tool.parameters, "view_range").a) = 2
    /\ \A n \in 1..2 : get(tk_tool.parameters, "view_range").a[n].t = "int"

\* the lines of a file numbered from..to, 1-based and inclusive
LinesFromTo(lines, from, to) ==
    [k \in 1..Max(to - from + 1, 0) |-> lines[from + k - 1]]

\* C18: view with view_range [start, end] on a file of n lines returns
\* exactly the lines max(start, 1) .. min(end, n), in file order.
C18_ViewClamp ==
    (IsRangedView /\ tk_result # NoResult) =>
        LET start == get(tk_tool.parameters, "view_range").a[1].i
            end   == get(tk_tool.parameters, "view_range").a[2].i
            n     == Len(tk_file0.lines)
        IN  tk_result = Ok(LinesFromTo(tk_file0.lines, Max(start, 1), Min(end, n)))

\* a bash parameter the call supplies: a key of the object holding a string
Supplied(key) ==
    tk_tool.parameters.is_object /\ tk_tool.parameters.fields[key].t = "str"

\* the pieces a bash script is made of, in the order the tool documents
BashPieces ==
    <<[op |-> "cd", key |-> "working_dir"],
      [op |-> "source", key |-> "source_path"],
      [op |-> "run", key |-> "command"]>>

SuppliedPiece(piece) == Supplied(piece.key)

\* C19: bash with none of working_dir, source_path, command fails and runs
\* nothing; otherwise its one script holds, in this order and only for the
\* parameters supplied, the cd, the source and the command, it is run once,
\* and the text returned is the standard output followed by the standard
\* error.
C19_Bash ==
    (tk_tool.name = "bash" /\ tk_result # NoResult) =>
        IF \A key \in {"working_dir", "source_path", "command"} : ~Supplied(key)
        THEN tk_result.kind = "Err" /\ tk_runs = 0 /\ tk_script = <<>>
        ELSE LET pieces == SelectSeq(BashPieces, SuppliedPiece)
                 spoken(x) == x # "\n"
             IN  /\ Len(tk_script) = Len(pieces)
                 /\ \A n \in 1..Len(pieces) :
                       /\ tk_script[n].op = pieces[n].op
                       /\ tk_script[n].arg = tk_tool.parameters.fields[pieces[n].key].s
                 /\ tk_env.spawn_ok
                       => /\ tk_runs = 1
                          /\ tk_result.kind = "Ok"
                          /\ SelectSeq(tk_result.text, spoken)
                                = tk_env.stdout \o tk_env.stderr

\* C19 witness: a bash call with all three parameters ran once and returned
\* output and error text
C19_Witness ==
    /\ tk_tool.name = "bash"
    /\ \A key \in {"working_dir", "source_path", "command"} : Supplied(key)
    /\ tk_runs = 1
    /\ Len(tk_script) = 3
    /\ tk_result = Ok(<<"out", "\n", "err">>)

\* a parameter the call lacks: no key of that name holding a value of the
\* type the tool declares for it
Lacks(key, type) ==
    ~(tk_tool.parameters.is_object /\ tk_tool.parameters.fields[key].t = type)

EditorCommandNames == {"view", "create", "str_replace", "insert", "undo_edit"}

\* the text_editor requests C20 speaks of
Malformed ==
    \/ Lacks("command", "str")
    \/ Lacks("path", "str")
    \/ tk_tool.parameters.fields["command"].s \notin EditorCommandNames
    \/ tk_tool.parameters.fields["command"].s = "create" /\ Lacks("file_text", "str")
    \/ tk_tool.parameters.fields["command"].s = "str_replace" /\ Lacks("old_str", "str")
    \/ tk_tool.parameters.fields["command"].s = "insert"
          /\ (Lacks("new_str", "str") \/ Lacks("insert_line", "int"))

\* C20: a text_editor request without command, without path, with a command
\* outside view, create, str_replace, insert, undo_edit, or without a field
\* its sub-command requires ends in an error and leaves the file as it was.
C20_MalformedRejected ==
    (tk_tool.name = "text_editor" /\ tk_result # NoResult /\ Malformed)
        => (tk_result.kind = "Err" /\ tk_file = tk_file0)

\* C20 witness: an insert without insert_line on a file of two lines was
\* rejected while the file could have been written
C20_Witness ==
    /\ tk_tool.name = "text_editor"
    /\ get(tk_tool.parameters, "command") = JStr("insert")
    /\ get(tk_tool.parameters, "path") = JStr("f")
    /\ get(tk_tool.parameters, "new_str") = JStr("new")
    /\ get(tk_tool.parameters, "insert_line") = JAbsent
    /\ tk_env.write_ok
    /\ tk_result = Err("Missing or invalid insert_line parameter")
    /\ tk_file = File(<<"l1", "l2">>)

\* C25: each generation hands the backend the complete current history, the
\* one that ends with the User message just added; never a stale copy and
\* never a history without that message.  Stated for process_message: what
\* generate locked and passes on (mod.rs:63-64) is the session's history and
\* ends with the message of this call.
C25_FullHistorySent ==
    (s_pc = "pm_wait" /\ pc[Main] = "g_call")
        => /\ gen_hist0[Main] = s_messages
           /\ gen_hist0[Main] # <<>>
           /\ Last(gen_hist0[Main]) = s_arg

\* C29: a generate call never waits for a lock it is still holding: when it
\* asks for the history lock the second time (mod.rs:72), the guard it took
\* at line 63 has been released.
C29_NoSelfWait ==
    \A t \in Tasks : pc[t] = "g_relock" => messages_lock # t

\* C30: no task is inside the token-usage critical section (mod.rs:67-71)
\* while it holds the history lock: the counter is updated in a critical
\* section of its own.
C30_LockDiscipline ==
    [][ \A t \in Tasks : generate_count(t) => messages_lock # t ]_vars

\* C21: scenario A: in a fresh session the operator submits one User
\* message and the backend answers with an Assistant message carrying one
\* bash ToolUse; the turn then goes on (the tool runs, its ToolResult is
\* folded into a new User message) until the statistics show
\* message_count = 3.
C21_ScenarioA ==
    (/\ r_pc = "wait"
     /\ r_body = "tool_calls"
     /\ pc[Main] = "g_count"
     /\ r_hist0 = <<>>
     /\ stats.total_messages = 0)
        ~> (stats.total_messages = 3)

\* C22: a process_message call for which the backend reported a positive
\* usage completes its turn, and after it total_tokens is greater than 0.
C22_TurnCountsTokens ==
    (s_pc = "pm_wait" /\ pc[Main] = "g_count" /\ gen_usage[Main] > 0)
        ~> (s_pc = "idle" /\ s_ret = "ok" /\ stats.total_tokens > 0)

\* C23: the counters never decrease: add_message raises total_messages by
\* exactly one, add_tokens(t) raises total_tokens by exactly t, and
\* complete() changes no counter and only stamps end_time.
C23_CountersMonotone ==
    [][ /\ stats'.total_messages >= stats.total_messages
        /\ stats'.total_tokens >= stats.total_tokens
        /\ stats_add_message
              => /\ stats'.total_messages = stats.total_messages + 1
                 /\ stats'.total_tokens = stats.total_tokens
        /\ \A t \in TokenInputs :
              stats_add_tokens(t)
                 => /\ stats'.total_tokens = stats.total_tokens + t
                    /\ stats'.total_messages = stats.total_messages
        /\ stats_complete
              => stats' = [stats EXCEPT !.end_time = "Some"]
      ]_vars

\* the sum of one counter over the tracked sessions
RECURSIVE SumOver(_, _)
SumOver(q, field) ==
    IF q = <<>> THEN 0 ELSE q[Len(q)][field] + SumOver(Front(q), field)

\* C24: get_total_stats returns the sums of total_tokens and of
\* total_messages over the tracked sessions (0 for both when none is
\* tracked) and leaves the tracked list as it was.
C24_TotalIsSum ==
    [][ stats_get_total_stats
           => /\ total'.end_time # "none"
              /\ total'.total_messages = SumOver(tracker, "total_messages")
              /\ total'.total_tokens = SumOver(tracker, "total_tokens")
              /\ tracker' = tracker
      ]_vars

\* C26: process_tool_use hands the tool use to the executor: the ToolResult
\* it returns carries the output and the error flag the executor produced
\* for this tool call.
C26_Delegates ==
    (pt_result # NoToolResult /\ tk_result.kind \in {"Ok", "Err"})
        => /\ pt_result.is_error = (tk_result.kind = "Err")
           /\ pt_result.output = tk_result.text

\* the Text items of a message, in order
TextItems(m) == SelectSeq(m.content, LAMBDA c : c.kind = "Text")

\* texts with a newline between each two neighbours, built from the back
RECURSIVE NewlineJoined(_)
NewlineJoined(items) ==
    IF items = <<>> THEN <<>>
    ELSE IF Len(items) = 1 THEN text_of(items[1])
    ELSE NewlineJoined(Front(items)) \o <<"\n">> \o text_of(Last(items))

\* C27: text() returns the texts of all Text contents in order, joined by
\* a newline, ignoring ToolUse and ToolResult; it is the empty string when
\* the message has no Text content.
C27_Text ==
    v_text.done
        => /\ v_text.chars = NewlineJoined(TextItems(v_msg))
           /\ TextItems(v_msg) = <<>> => v_text.chars = <<>>

\* C27 witness: text() was taken of a message that holds two different
\* non-empty texts around a ToolUse, and of nothing else
C27_Witness ==
    /\ v_text.done
    /\ v_msg.content = <<TextNo(2), ToolUse(1), TextNo(0)>>
    /\ v_text.chars = <<"2", "\n", "0">>

\* C28: once run has finalized the statistics and returned, the session is
\* terminal: no later operation appends to a history or changes the
\* statistics.
C28_Terminal ==
    [][ (r_pc = "returned" /\ r_ret = "Ok")
           => /\ s_messages' = s_messages
              /\ messages' = messages
              /\ stats' = stats
      ]_vars

C38_ViewInBounds ==
    (IsRangedView /\ tk_result # NoResult) =>
        LET range == filter_i64(get(tk_tool.parameters, "view_range").a)
            n     == Len(tk_file0.lines)
            lower == as_usize(Max(range[1] - 1, 0))
            upper == as_usize(Min(range[2], n))
        IN  /\ 0 <= lower
            /\ lower <= upper
            /\ upper <= n
            /\ tk_result.kind \in {"Ok", "Err"}

\* a text_editor insert that names the file, the new string and an integer
\* insert_line, on a file that exists, in an environment that lets it write
IsInsert ==
    /\ tk_tool.name = "text_editor"
    /\ get(tk_tool.parameters, "command") = JStr("insert")
    /\ get(tk_tool.parameters, "path").t = "str"
    /\ get(tk_tool.parameters, "new_str").t = "str"
    /\ get(tk_tool.parameters, "insert_line").t = "int"
    /\ tk_file0.exists
    /\ tk_result # NoResult
    /\ tk_env.write_ok

\* C39: insert with insert_line k on a file of n lines: for 0 <= k <= n the
\* new string is a line of its own right after line k (the first line when
\* k = 0) and the n original lines are all there in their order; for k > n
\* or k < 0 the call fails and the file is as it was.
C39_Insert ==
    IsInsert =>
        LET k   == get(tk_tool.parameters, "insert_line").i
            new == get(tk_tool.parameters, "new_str").s
            old == tk_file0.lines
            n   == Len(old)
        IN  /\ (0 <= k /\ k <= n)
                  => /\ tk_result.kind = "Ok"
                     /\ tk_file.exists
                     /\ Len(tk_file.lines) = n + 1
                     /\ tk_file.lines[k + 1] = new
                     /\ \A i \in 1..k : tk_file.lines[i] = old[i]
                     /\ \A i \in (k + 1)..n : tk_file.lines[i + 1] = old[i]
            /\ (k > n \/ k < 0)
                  => /\ tk_result.kind = "Err"
                     /\ tk_file = tk_file0

\* C39 witness: "new" was inserted after line 1 of a file of two lines
C39_Witness ==
    /\ IsInsert
    /\ get(tk_tool.parameters, "insert_line") = JInt(1)
    /\ tk_file0 = File(<<"l1", "l2">>)
    /\ tk_file = File(<<"l1", "new", "l2">>)
    /\ tk_result.kind = "Ok"

\* C36: generate is atomic towards concurrent history mutations: when
\* another task is calling add_message while a generate call is in flight,
\* that generate appends its Assistant message, and appends it directly
\* after exactly the messages it sent to the backend.
C36_GenerateAtomic ==
    /\ [][ \A t \in Clients :
              (pc[t] = "g_relock" /\ pc'[t] = "idle")
                 => messages' = Append(gen_hist0[t], response[t]) ]_vars
    /\ \A t \in Clients :
          (pc[t] = "g_count" /\ \E u \in Clients \ {t} : pc[u] = "am_lock")
             ~> (pc[t] = "idle" /\ ret[t] = "gen_ok")

\* C35: after a completed turn the session's total_tokens equals the
\* Exchange's cumulative token usage: a turn of run whose backend call
\* reported a usage completes, and whenever a turn completes the two
\* counters are equal, each call's usage counted once.
C35_TokensMatchExchange ==
    /\ [][ (r_pc = "wait" /\ r_pc' = "loop")
              => stats'.total_tokens = token_usage' ]_vars
    /\ (r_pc = "wait" /\ pc[Main] = "g_count" /\ gen_usage[Main] > 0)
          ~> (r_pc = "loop" /\ stats.total_tokens = token_usage
                            /\ token_usage = gen_tok0[Main] + gen_usage[Main])

\* C31: the flag is polled again before each generation: a flag that was
\* set before the backend call of a turn is issued, for instance while run
\* waited for the operator's line, sends the turn to recovery; the line is
\* not taken into the history and no backend call is issued with the flag
\* set.
C31_PolledBeforeGeneration ==
    [][ /\ (r_pc = "input" /\ interrupted) => r_pc' # "add"
        /\ (r_pc = "generate" /\ r_pc' = "wait") => ~interrupted
      ]_vars

\* C32: recovery runs exactly once per observed interruption and only when
\* the flag was observed set: over the life of a session object, drop
\* included, the number of recovery executions equals the number of times
\* a poll found the flag set.
C32_RecoveryPerObservation ==
    /\ l_recovered <= l_observed
    /\ l_pc \in {"idle", "loop", "input", "process", "pm_check", "finish",
                 "returned", "dropped"}
          => l_recovered = l_observed

\* C34: the session keeps no history of its own: whenever no operation of
\* the session is under way, the list interrupt recovery inspects and
\* prunes (Session.messages) is, message for message, the Exchange history
\* that is sent to the backend, whether the turns went through run or
\* through process_message.
C34_OneHistory ==
    (r_pc \in {"idle", "returned"} /\ s_pc = "idle") => s_messages = messages

\* C33: every tool call of a model response is executed exactly once, one
\* after the other and in the order listed, and all results are gathered
\* before the response is handled further; a failing tool call does not
\* keep the later calls of the same response from being executed.
C33_EveryCallExecuted ==
    /\ \A n \in 1..Len(tc_done) : tc_done[n] = n
    /\ tc_pc = "returned" => Len(tc_done) = Len(tc_calls)

====
